---- MODULE Spec2Model ----
(***************************************************************************)
(* A model of the POLITIKCRED import script (populate-politics.py): the    *)
(* orientation classifier, the styler, the deduplicator, the batch         *)
(* persister and the run that chains them.                                 *)
(*                                                                         *)
(* Text.  A Python str is a sequence of one-character strings.  The        *)
(* accented letters of the source are written as two-sign ASCII tokens,    *)
(* each standing for ONE character: "e'" (e acute), "E'" (E acute),        *)
(* "c," (c cedilla), "C," (C cedilla), "o^" (o circumflex), "O^" (O        *)
(* circumflex).  The whitespace characters that have no escape are         *)
(* written "<x0b>", "<x1c>", "<xa0>", "<u2028>", ...: the code point in     *)
(* hexadecimal, each token again ONE character.  A value that is not a     *)
(* str is one of the two tokens NaN (the float pandas gives for an empty   *)
(* CSV cell) and None (Python's None, JSON null).                          *)
(***************************************************************************)
EXTENDS Integers, Sequences, FiniteSets, TLC

VARIABLES
    pc,                 \* where the run (or the function under check) stands
    env,                \* the environment variables read by __init__
    party,              \* classifier: the label handed to _determine_orientation
    orientation,        \* classifier: what the last call returned
    prev_orientation,   \* classifier: what the call before it returned
    ncalls,             \* classifier: number of calls made
    history,            \* classifier: every call made, in order: its argument and what it returned
    requests,           \* HTTP requests issued so far, in order
    fetched,            \* what each source adapter returned, by source
    all_politicians,    \* populate_database: the concatenated source lists
    cleaned_politicians,\* populate_database: the output of _clean_and_deduplicate
    kept,               \* the positions of its input that _clean_and_deduplicate appended
    politicians,        \* insert_politicians_batch: its argument
    batch_size,         \* insert_politicians_batch: its argument
    i,                  \* insert_politicians_batch: start of the current batch (0-based)
    j,                  \* insert_politicians_batch: next record of the fallback loop (1-based in batch)
    total_inserted,     \* insert_politicians_batch: the counter
    store,              \* rows of table 'politicians' written by this run
    calls,              \* persistence calls issued so far, in order
    errlog,             \* the ERROR records logged (self.logger and main()), in order
    result,             \* the value returned by the function under check
    raised,             \* the exception that left the function under check
    to_style,           \* styler: the dict handed to _assign_visual_elements
    styled,             \* styler: the dict it returned
    rows,               \* asset post-pass: table 'politicians', in the order the store scans it
    asset_at,           \* asset post-pass: position in politicians_assets of the next name
    updated_count,      \* asset post-pass: the counter of the current call
    pass,               \* asset post-pass: number of the current call of update_politicians_assets
    after_first,        \* asset post-pass: the table as the first call left it
    again               \* _clean_and_deduplicate called on its own output: what the call gave

classVars == <<party, orientation, prev_orientation, ncalls, history>>
fetchVars == <<requests, fetched, all_politicians>>
insertVars == <<politicians, batch_size, i, j, total_inserted, store, calls>>
styleVars == <<to_style, styled>>
assetVars == <<rows, asset_at, updated_count, pass, after_first>>
againVars == <<again>>
vars == <<pc, env, party, orientation, prev_orientation, ncalls, history, requests, fetched,
          all_politicians, cleaned_politicians, kept, politicians, batch_size, i, j,
          total_inserted, store, calls, errlog, result, raised, to_style, styled,
          rows, asset_at, updated_count, pass, after_first, again>>

-----------------------------------------------------------------------------
(* Bounds of the model *)

\* calls of the classifier in one sequence of calls
MaxCalls == 3

\* rows the three downloaded sources serve in one run, all sources together
MaxRaw == 1

\* persistence calls that fail in one run of populate_database
MaxStoreFail == 2

\* entities in the list handed to _clean_and_deduplicate when it is checked alone
MaxEnt == 2

\* records in the list handed to insert_politicians_batch when it is checked alone
MaxRecs == 4

\* batch_size handed to insert_politicians_batch when it is checked alone
MaxBatch == 3

\* the default of insert_politicians_batch's batch_size
DefaultBatchSize == 50

-----------------------------------------------------------------------------
(* Python values and str methods *)

NaN == <<"<nan>">>
None == <<"<None>">>
IsStr(v) == v # NaN /\ v # None

\* bool(v): an empty str and None are falsy, a float nan is truthy
Truthy(v) == v # <<>> /\ v # None

\* v1 or v2
Or(v1, v2) == IF Truthy(v1) THEN v1 ELSE v2

\* f"{v}"
Format(v) == IF v = NaN THEN <<"n", "a", "n">> ELSE IF v = None THEN <<"N", "o", "n", "e">> ELSE v

UpperChars == <<"A", "B", "C", "D", "E", "F", "G", "H", "I", "J", "K", "L", "M", "N", "O", "P", "Q", "R", "S", "T", "U", "V", "W", "X", "Y", "Z", "E'", "C,", "O^">>
LowerChars == <<"a", "b", "c", "d", "e", "f", "g", "h", "i", "j", "k", "l", "m", "n", "o", "p", "q", "r", "s", "t", "u", "v", "w", "x", "y", "z", "e'", "c,", "o^">>
\* the characters str.strip() removes: those for which str.isspace() holds
Whitespace ==
    {"\t", "\n", "<x0b>", "\f", "\r", "<x1c>", "<x1d>", "<x1e>", "<x1f>", " ",
     "<x85>", "<xa0>", "<u1680>", "<u2000>", "<u2001>", "<u2002>", "<u2003>",
     "<u2004>", "<u2005>", "<u2006>", "<u2007>", "<u2008>", "<u2009>", "<u200a>",
     "<u2028>", "<u2029>", "<u202f>", "<u205f>", "<u3000>"}

ToLower ==
    [c \in {UpperChars[k] : k \in 1..Len(UpperChars)} |->
        LowerChars[CHOOSE k \in 1..Len(UpperChars) : UpperChars[k] = c]]
ToUpper ==
    [c \in {LowerChars[k] : k \in 1..Len(LowerChars)} |->
        UpperChars[CHOOSE k \in 1..Len(LowerChars) : LowerChars[k] = c]]

LowerChar(c) == IF c \in DOMAIN ToLower THEN ToLower[c] ELSE c
UpperChar(c) == IF c \in DOMAIN ToUpper THEN ToUpper[c] ELSE c

\* str.lower(), str.upper()
Lower(s) == [k \in 1..Len(s) |-> LowerChar(s[k])]
Upper(s) == [k \in 1..Len(s) |-> UpperChar(s[k])]

\* str.strip()
Strip(s) ==
    LET keep == {k \in 1..Len(s) : s[k] \notin Whitespace}
    IN  IF keep = {} THEN <<>>
        ELSE SubSeq(s, CHOOSE k \in keep : \A m \in keep : k <= m,
                       CHOOSE k \in keep : \A m \in keep : k >= m)

\* str.replace(old, new) for one-character old and new
Replace(s, old, new) == [k \in 1..Len(s) |-> IF s[k] = old THEN new ELSE s[k]]

\* needle in hay
Contains(hay, needle) ==
    \E k \in 0..(Len(hay) - Len(needle)) : SubSeq(hay, k + 1, k + Len(needle)) = needle

-----------------------------------------------------------------------------
(* The orientation classifier *)

Orientations == {"left", "center-left", "center", "center-right", "right"}

\* the dict of _determine_orientation, in insertion order (the order a dict iterates in)
orientations == <<
    [key |-> <<"l", "a", " ", "f", "r", "a", "n", "c", "e", " ", "i", "n", "s", "o", "u", "m", "i", "s", "e">>, orientation |-> "left"],
    [key |-> <<"p", "a", "r", "t", "i", " ", "s", "o", "c", "i", "a", "l", "i", "s", "t", "e">>, orientation |-> "center-left"],
    [key |-> <<"e", "u", "r", "o", "p", "e", " ", "e", "c", "o", "l", "o", "g", "i", "e">>, orientation |-> "center-left"],
    [key |-> <<"r", "e", "n", "a", "i", "s", "s", "a", "n", "c", "e">>, orientation |-> "center"],
    [key |-> <<"m", "o", "d", "e", "m">>, orientation |-> "center"],
    [key |-> <<"a", "g", "i", "r">>, orientation |-> "center"],
    [key |-> <<"l", "e", "s", " ", "r", "e", "p", "u", "b", "l", "i", "c", "a", "i", "n", "s">>, orientation |-> "center-right"],
    [key |-> <<"l", "r">>, orientation |-> "center-right"],
    [key |-> <<"r", "a", "s", "s", "e", "m", "b", "l", "e", "m", "e", "n", "t", " ", "n", "a", "t", "i", "o", "n", "a", "l">>, orientation |-> "right"],
    [key |-> <<"r", "e", "c", "o", "n", "q", "u", "e", "t", "e">>, orientation |-> "right"] >>

\* the for loop of _determine_orientation from entry k on
RECURSIVE OrientationLoop(_, _)
OrientationLoop(party_lower, k) ==
    IF k > Len(orientations) THEN "center"
    ELSE IF Contains(party_lower, orientations[k].key) THEN orientations[k].orientation
    ELSE OrientationLoop(party_lower, k + 1)

\* the loop taken from the last entry to the first: the last match wins
RECURSIVE OrientationLoopReversed(_, _)
OrientationLoopReversed(party_lower, k) ==
    IF k < 1 THEN "center"
    ELSE IF Contains(party_lower, orientations[k].key) THEN orientations[k].orientation
    ELSE OrientationLoopReversed(party_lower, k - 1)

\* _determine_orientation iterating the entries in reverse
DetermineOrientationReversed(p) ==
    IF ~Truthy(p) THEN "center"
    ELSE IF ~IsStr(p) THEN "AttributeError"
    ELSE OrientationLoopReversed(Lower(p), Len(orientations))

\* _determine_orientation without the final `return 'center'`
DetermineOrientationNoDefault(p) ==
    IF ~Truthy(p) THEN "center"
    ELSE IF ~IsStr(p) THEN "AttributeError"
    ELSE IF \E k \in 1..Len(orientations) : Contains(Lower(p), orientations[k].key)
    THEN OrientationLoop(Lower(p), 1)
    ELSE "None"

\* _determine_orientation keeping its last result on the object and
\* returning it, where there is one, in place of the final `return 'center'`
DetermineOrientationKeepsLast(p) ==
    IF ~Truthy(p) THEN "center"
    ELSE IF ~IsStr(p) THEN "AttributeError"
    ELSE IF \E k \in 1..Len(orientations) : Contains(Lower(p), orientations[k].key)
    THEN OrientationLoop(Lower(p), 1)
    ELSE IF orientation \in Orientations THEN orientation ELSE "center"

\* _determine_orientation(party): an orientation, or "AttributeError" when
\* party.lower() is called on a value that is not a str
_determine_orientation(p) ==
    IF ~Truthy(p) THEN "center"
    ELSE IF ~IsStr(p) THEN "AttributeError"
    ELSE OrientationLoop(Lower(p), 1)

-----------------------------------------------------------------------------
(* The styler *)

\* avatar_mapping.get(full_name, None); the paths are kept as whole strings
avatar_mapping(full_name) ==
    IF full_name = <<"e'", "l", "i", "s", "a", "b", "e", "t", "h", " ", "b", "o", "r", "n", "e">> THEN "/images/borne.png"
    ELSE IF full_name = <<"s", "e'", "b", "a", "s", "t", "i", "e", "n", " ", "l", "e", "c", "o", "r", "n", "u">> THEN "/images/lecornu.png"
    ELSE IF full_name = <<"e'", "r", "i", "c", " ", "l", "o", "m", "b", "a", "r", "d">> THEN "/images/lombart.png"
    ELSE IF full_name = <<"m", "a", "r", "i", "n", "e", " ", "l", "e", " ", "p", "e", "n">> THEN "/images/lepen.jpeg"
    ELSE "None"

\* orientation_colors.get(orientation) without the default colour
OrientationColorsNoDefault(o) ==
    IF o = "left" THEN "#DC2626"
    ELSE IF o = "center-left" THEN "#059669"
    ELSE IF o = "center" THEN "#1E3A8A"
    ELSE IF o = "center-right" THEN "#D97706"
    ELSE IF o = "right" THEN "#7C2D12"
    ELSE "None"

\* orientation_colors.get(orientation, '#1E3A8A')
orientation_colors(o) ==
    IF o = "left" THEN "#DC2626"
    ELSE IF o = "center-left" THEN "#059669"
    ELSE IF o = "center" THEN "#1E3A8A"
    ELSE IF o = "center-right" THEN "#D97706"
    ELSE IF o = "right" THEN "#7C2D12"
    ELSE "#1E3A8A"

\* the tiers with `>` in place of `>=`
CredibilityStyleStrict(credibility) ==
    IF credibility > 80
    THEN [cartoon_expression |-> "confident", credibility_badge |-> "trophy",
          credibility_label |-> "Il assure lauiss !"]
    ELSE IF credibility > 60
    THEN [cartoon_expression |-> "neutral", credibility_badge |-> "scales",
          credibility_label |-> "Moyen lauiss..."]
    ELSE [cartoon_expression |-> "skeptical", credibility_badge |-> "warning",
          credibility_label |-> "Louche lauiss !"]

\* the if / elif / else on credibility_score; the badges are named, not drawn
credibility_style(credibility) ==
    IF credibility >= 80
    THEN [cartoon_expression |-> "confident", credibility_badge |-> "trophy",
          credibility_label |-> "Il assure lauiss !"]
    ELSE IF credibility >= 60
    THEN [cartoon_expression |-> "neutral", credibility_badge |-> "scales",
          credibility_label |-> "Moyen lauiss..."]
    ELSE [cartoon_expression |-> "skeptical", credibility_badge |-> "warning",
          credibility_label |-> "Louche lauiss !"]

\* the dict role_styles, in insertion order; the crowns are named, not drawn
role_styles == <<
    [role |-> <<"P", "r", "e", "m", "i", "e", "r", " ", "m", "i", "n", "i", "s", "t", "r", "e">>, style |-> [highlight |-> TRUE, crown |-> "crown"]],
    [role |-> <<"M", "i", "n", "i", "s", "t", "r", "e", " ", "d", "'", "E'", "t", "a", "t">>, style |-> [highlight |-> TRUE, crown |-> "star"]],
    [role |-> <<"D", "e'", "p", "u", "t", "e'">>, style |-> [highlight |-> FALSE, crown |-> "ballot"]],
    [role |-> <<"S", "e'", "n", "a", "t", "e", "u", "r">>, style |-> [highlight |-> FALSE, crown |-> "palace"]],
    [role |-> <<"M", "a", "i", "r", "e">>, style |-> [highlight |-> FALSE, crown |-> "city"]] >>

\* the loop over role_styles walked from the last entry to the first
RECURSIVE RoleLoopBackwards(_, _)
RoleLoopBackwards(position, k) ==
    IF k > Len(role_styles) THEN [highlight |-> FALSE, crown |-> "person"]
    ELSE IF Contains(Lower(position), Lower(role_styles[Len(role_styles) + 1 - k].role))
         THEN role_styles[Len(role_styles) + 1 - k].style
    ELSE RoleLoopBackwards(position, k + 1)

\* the for / else over role_styles from entry k on
RECURSIVE RoleLoop(_, _)
RoleLoop(position, k) ==
    IF k > Len(role_styles) THEN [highlight |-> FALSE, crown |-> "person"]
    ELSE IF Contains(Lower(position), Lower(role_styles[k].role)) THEN role_styles[k].style
    ELSE RoleLoop(position, k + 1)

\* d.get(key, default)
Get(d, key, default) == IF key \in DOMAIN d THEN d[key] ELSE default

\* the styler with the defaults it reads written back (setdefault for get)
AssignVisualElementsSetsDefaults(politician) ==
    LET full_name == Strip(Lower(Format(Get(politician, "first_name", <<>>)) \o <<" ">>
                                   \o Format(Get(politician, "last_name", <<>>))))
    IN  (([avatar_url |-> avatar_mapping(full_name),
           card_color |-> orientation_colors(Get(politician, "political_orientation", "center"))]
          @@ credibility_style(Get(politician, "credibility_score", 100))
          @@ RoleLoop(Get(politician, "position", <<>>), 1))
         @@ politician)
        @@ [first_name |-> <<>>, last_name |-> <<>>, political_orientation |-> "center",
            credibility_score |-> 100, position |-> <<>>]

\* _assign_visual_elements(politician): the dict with the derived keys set
_assign_visual_elements(politician) ==
    LET full_name == Strip(Lower(Format(Get(politician, "first_name", <<>>)) \o <<" ">>
                                   \o Format(Get(politician, "last_name", <<>>))))
    IN  ([avatar_url |-> avatar_mapping(full_name),
          card_color |-> orientation_colors(Get(politician, "political_orientation", "center"))]
         @@ credibility_style(Get(politician, "credibility_score", 100))
         @@ RoleLoop(Get(politician, "position", <<>>), 1))
        @@ politician

-----------------------------------------------------------------------------
(* The source adapters *)

\* the literal list of fetch_ministres_gouvernement_bayrou
ministres == <<
    [name |-> <<"F", "r", "a", "n", "c,", "o", "i", "s", " ", "B", "a", "y", "r", "o", "u">>, first_name |-> <<"F", "r", "a", "n", "c,", "o", "i", "s">>, last_name |-> <<"B", "a", "y", "r", "o", "u">>,
     party |-> <<"M", "o", "D", "e", "m">>,
     position |-> <<"P", "r", "e", "m", "i", "e", "r", " ", "m", "i", "n", "i", "s", "t", "r", "e", ",", " ", "c", "h", "a", "r", "g", "e'", " ", "d", "e", " ", "l", "a", " ", "P", "l", "a", "n", "i", "f", "i", "c", "a", "t", "i", "o", "n", " ", "e'", "c", "o", "l", "o", "g", "i", "q", "u", "e", " ", "e", "t", " ", "e'", "n", "e", "r", "g", "e'", "t", "i", "q", "u", "e">>,
     political_orientation |-> "center", credibility_score |-> 95],
    [name |-> <<"E'", "l", "i", "s", "a", "b", "e", "t", "h", " ", "B", "o", "r", "n", "e">>, first_name |-> <<"E'", "l", "i", "s", "a", "b", "e", "t", "h">>, last_name |-> <<"B", "o", "r", "n", "e">>,
     party |-> <<"R", "e", "n", "a", "i", "s", "s", "a", "n", "c", "e">>,
     position |-> <<"M", "i", "n", "i", "s", "t", "r", "e", " ", "d", "'", "E'", "t", "a", "t", ",", " ", "m", "i", "n", "i", "s", "t", "r", "e", " ", "d", "e", " ", "l", "'", "E'", "d", "u", "c", "a", "t", "i", "o", "n", " ", "n", "a", "t", "i", "o", "n", "a", "l", "e", ",", " ", "d", "e", " ", "l", "'", "E", "n", "s", "e", "i", "g", "n", "e", "m", "e", "n", "t", " ", "s", "u", "p", "e'", "r", "i", "e", "u", "r", " ", "e", "t", " ", "d", "e", " ", "l", "a", " ", "R", "e", "c", "h", "e", "r", "c", "h", "e">>,
     political_orientation |-> "center", credibility_score |-> 88],
    [name |-> <<"M", "a", "n", "u", "e", "l", " ", "V", "a", "l", "l", "s">>, first_name |-> <<"M", "a", "n", "u", "e", "l">>, last_name |-> <<"V", "a", "l", "l", "s">>,
     party |-> <<"R", "e", "n", "a", "i", "s", "s", "a", "n", "c", "e">>,
     position |-> <<"M", "i", "n", "i", "s", "t", "r", "e", " ", "d", "'", "E'", "t", "a", "t", ",", " ", "m", "i", "n", "i", "s", "t", "r", "e", " ", "d", "e", "s", " ", "O", "u", "t", "r", "e", "-", "m", "e", "r">>,
     political_orientation |-> "center-left", credibility_score |-> 75],
    [name |-> <<"G", "e'", "r", "a", "l", "d", " ", "D", "a", "r", "m", "a", "n", "i", "n">>, first_name |-> <<"G", "e'", "r", "a", "l", "d">>, last_name |-> <<"D", "a", "r", "m", "a", "n", "i", "n">>,
     party |-> <<"R", "e", "n", "a", "i", "s", "s", "a", "n", "c", "e">>,
     position |-> <<"M", "i", "n", "i", "s", "t", "r", "e", " ", "d", "'", "E'", "t", "a", "t", ",", " ", "g", "a", "r", "d", "e", " ", "d", "e", "s", " ", "s", "c", "e", "a", "u", "x", ",", " ", "m", "i", "n", "i", "s", "t", "r", "e", " ", "d", "e", " ", "l", "a", " ", "J", "u", "s", "t", "i", "c", "e">>,
     political_orientation |-> "center-right", credibility_score |-> 70],
    [name |-> <<"B", "r", "u", "n", "o", " ", "R", "e", "t", "a", "i", "l", "l", "e", "a", "u">>, first_name |-> <<"B", "r", "u", "n", "o">>, last_name |-> <<"R", "e", "t", "a", "i", "l", "l", "e", "a", "u">>,
     party |-> <<"L", "e", "s", " ", "R", "e'", "p", "u", "b", "l", "i", "c", "a", "i", "n", "s">>,
     position |-> <<"M", "i", "n", "i", "s", "t", "r", "e", " ", "d", "'", "E'", "t", "a", "t", ",", " ", "m", "i", "n", "i", "s", "t", "r", "e", " ", "d", "e", " ", "l", "'", "I", "n", "t", "e'", "r", "i", "e", "u", "r">>,
     political_orientation |-> "center-right", credibility_score |-> 82],
    [name |-> <<"C", "a", "t", "h", "e", "r", "i", "n", "e", " ", "V", "a", "u", "t", "r", "i", "n">>, first_name |-> <<"C", "a", "t", "h", "e", "r", "i", "n", "e">>, last_name |-> <<"V", "a", "u", "t", "r", "i", "n">>,
     party |-> <<"R", "e", "n", "a", "i", "s", "s", "a", "n", "c", "e">>,
     position |-> <<"M", "i", "n", "i", "s", "t", "r", "e", " ", "d", "u", " ", "T", "r", "a", "v", "a", "i", "l", ",", " ", "d", "e", " ", "l", "a", " ", "S", "a", "n", "t", "e'", ",", " ", "d", "e", "s", " ", "S", "o", "l", "i", "d", "a", "r", "i", "t", "e'", "s", " ", "e", "t", " ", "d", "e", "s", " ", "F", "a", "m", "i", "l", "l", "e", "s">>,
     political_orientation |-> "center", credibility_score |-> 85],
    [name |-> <<"E'", "r", "i", "c", " ", "L", "o", "m", "b", "a", "r", "d">>, first_name |-> <<"E'", "r", "i", "c">>, last_name |-> <<"L", "o", "m", "b", "a", "r", "d">>,
     party |-> <<"D", "i", "v", "e", "r", "s", " ", "g", "a", "u", "c", "h", "e">>,
     position |-> <<"M", "i", "n", "i", "s", "t", "r", "e", " ", "d", "e", " ", "l", "'", "E'", "c", "o", "n", "o", "m", "i", "e", ",", " ", "d", "e", "s", " ", "F", "i", "n", "a", "n", "c", "e", "s", " ", "e", "t", " ", "d", "e", " ", "l", "a", " ", "S", "o", "u", "v", "e", "r", "a", "i", "n", "e", "t", "e'", " ", "i", "n", "d", "u", "s", "t", "r", "i", "e", "l", "l", "e", " ", "e", "t", " ", "n", "u", "m", "e'", "r", "i", "q", "u", "e">>,
     political_orientation |-> "center-left", credibility_score |-> 90],
    [name |-> <<"S", "e'", "b", "a", "s", "t", "i", "e", "n", " ", "L", "e", "c", "o", "r", "n", "u">>, first_name |-> <<"S", "e'", "b", "a", "s", "t", "i", "e", "n">>, last_name |-> <<"L", "e", "c", "o", "r", "n", "u">>,
     party |-> <<"R", "e", "n", "a", "i", "s", "s", "a", "n", "c", "e">>,
     position |-> <<"M", "i", "n", "i", "s", "t", "r", "e", " ", "d", "e", "s", " ", "A", "r", "m", "e'", "e", "s">>,
     political_orientation |-> "center", credibility_score |-> 87],
    [name |-> <<"R", "a", "c", "h", "i", "d", "a", " ", "D", "a", "t", "i">>, first_name |-> <<"R", "a", "c", "h", "i", "d", "a">>, last_name |-> <<"D", "a", "t", "i">>,
     party |-> <<"L", "e", "s", " ", "R", "e'", "p", "u", "b", "l", "i", "c", "a", "i", "n", "s">>,
     position |-> <<"M", "i", "n", "i", "s", "t", "r", "e", " ", "d", "e", " ", "l", "a", " ", "C", "u", "l", "t", "u", "r", "e">>,
     political_orientation |-> "center-right", credibility_score |-> 78] >>

\* fetch_ministres_gouvernement_bayrou(): every literal updated and styled
fetch_ministres_gouvernement_bayrou ==
    [k \in 1..Len(ministres) |->
        _assign_visual_elements([constituency |-> <<>>] @@ ministres[k])]

\* the three endpoints of fetch_deputes, in the order of urls_to_try
urls_to_try == <<"AMO30/17", "AMO30/16", "opendata/17/acteurs">>

\* _extract_party_from_mandate(mandat): organes is the list under organes.organe
RECURSIVE ExtractPartyLoop(_, _)
ExtractPartyLoop(organes, k) ==
    IF k > Len(organes) THEN <<"N", "o", "n", " ", "i", "n", "s", "c", "r", "i", "t">>
    ELSE IF organes[k].codeType = "GP" THEN organes[k].libelle
    ELSE ExtractPartyLoop(organes, k + 1)

_extract_party_from_mandate(mandat) == ExtractPartyLoop(mandat.organes, 1)

\* the deputy's dict with the classifier's default instead of its call
DeputyUnclassified(deputy_info) ==
    [name |-> Strip(Format(deputy_info.prenom) \o <<" ">> \o Format(deputy_info.nom)),
     first_name |-> deputy_info.prenom,
     last_name |-> deputy_info.nom,
     party |-> _extract_party_from_mandate(deputy_info.mandat),
     position |-> <<"D", "e'", "p", "u", "t", "e'">>,
     constituency |-> <<"C", "i", "r", "c", "o", "n", "s", "c", "r", "i", "p", "t", "i", "o", "n", " ">> \o Format(deputy_info.mandat.numCirconscription)
                      \o <<" ", "-", " ">> \o Format(deputy_info.mandat.departement),
     political_orientation |-> "center",
     credibility_score |-> 100]

\* the dict built for one 'acteur' of the Assemblee nationale export
deputy(deputy_info) ==
    [name |-> Strip(Format(deputy_info.prenom) \o <<" ">> \o Format(deputy_info.nom)),
     first_name |-> deputy_info.prenom,
     last_name |-> deputy_info.nom,
     party |-> _extract_party_from_mandate(deputy_info.mandat),
     position |-> <<"D", "e'", "p", "u", "t", "e'">>,
     constituency |-> <<"C", "i", "r", "c", "o", "n", "s", "c", "r", "i", "p", "t", "i", "o", "n", " ">> \o Format(deputy_info.mandat.numCirconscription)
                      \o <<" ", "-", " ">> \o Format(deputy_info.mandat.departement),
     political_orientation |->
         _determine_orientation(_extract_party_from_mandate(deputy_info.mandat)),
     credibility_score |-> 100]

\* an 'acteur' on which the loop body of fetch_deputes raises: mandats.mandat is
\* not a list ([0] fails), or the party label is not a str
DeputyRaises(deputy_info) ==
    \/ deputy_info.mandat.shape # "list"
    \/ _determine_orientation(_extract_party_from_mandate(deputy_info.mandat))
           = "AttributeError"

\* the body of fetch_deputes once the endpoint loop has ended with `data`:
\* falsy data raises, any exception is caught and gives []
parse_deputes(data) ==
    IF data.empty \/ \E k \in 1..Len(data.acteurs) : DeputyRaises(data.acteurs[k])
    THEN [status |-> "error", list |-> <<>>]
    ELSE [status |-> "ok",
          list |-> [k \in 1..Len(data.acteurs) |-> deputy(data.acteurs[k])]]

\* pd.isna(v)
isna(v) == v = NaN \/ v = None

\* the senator's dict with a base score above the scale
SenatorOverScored(row) ==
    [name |-> Strip(Format(row.Prenom) \o <<" ">> \o Format(Or(row.NomUsage, row.Nom))),
     first_name |-> row.Prenom,
     last_name |-> Or(row.NomUsage, row.Nom),
     party |-> row.Groupe,
     position |-> <<"S", "e'", "n", "a", "t", "e", "u", "r">>,
     constituency |-> row.Departement,
     political_orientation |-> _determine_orientation(row.Groupe),
     credibility_score |-> 180]

\* the dict built for one active row of ODSEN_GENERAL.csv
senator(row) ==
    [name |-> Strip(Format(row.Prenom) \o <<" ">> \o Format(Or(row.NomUsage, row.Nom))),
     first_name |-> row.Prenom,
     last_name |-> Or(row.NomUsage, row.Nom),
     party |-> row.Groupe,
     position |-> <<"S", "e'", "n", "a", "t", "e", "u", "r">>,
     constituency |-> row.Departement,
     political_orientation |-> _determine_orientation(row.Groupe),
     credibility_score |-> 80]

SenatorActive(row) == isna(row.Fin)

SenatorRaises(row) ==
    SenatorActive(row) /\ _determine_orientation(row.Groupe) = "AttributeError"

\* fetch_senateurs() on the rows of the downloaded CSV
parse_senateurs(df) ==
    IF \E k \in 1..Len(df) : SenatorRaises(df[k])
    THEN [status |-> "error", list |-> <<>>]
    ELSE LET active == SelectSeq(df, SenatorActive)
         IN  [status |-> "ok",
              list |-> [k \in 1..Len(active) |-> _assign_visual_elements(senator(active[k]))]]

grandes_villes == {
    <<"P", "A", "R", "I", "S">>, <<"M", "A", "R", "S", "E", "I", "L", "L", "E">>, <<"L", "Y", "O", "N">>, <<"T", "O", "U", "L", "O", "U", "S", "E">>, <<"N", "I", "C", "E">>, <<"N", "A", "N", "T", "E", "S">>,
    <<"M", "O", "N", "T", "P", "E", "L", "L", "I", "E", "R">>, <<"S", "T", "R", "A", "S", "B", "O", "U", "R", "G">>, <<"B", "O", "R", "D", "E", "A", "U", "X">>, <<"L", "I", "L", "L", "E">>, <<"R", "E", "N", "N", "E", "S">>,
    <<"R", "E", "I", "M", "S">>, <<"S", "A", "I", "N", "T", "-", "E", "T", "I", "E", "N", "N", "E">>, <<"T", "O", "U", "L", "O", "N">>, <<"L", "E", " ", "H", "A", "V", "R", "E">>, <<"G", "R", "E", "N", "O", "B", "L", "E">>,
    <<"D", "I", "J", "O", "N">>, <<"A", "N", "G", "E", "R", "S">>, <<"N", "I", "M", "E", "S">>, <<"V", "I", "L", "L", "E", "U", "R", "B", "A", "N", "N", "E">>, <<"C", "L", "E", "R", "M", "O", "N", "T", "-", "F", "E", "R", "R", "A", "N", "D">> }

\* the dict built for one row of the mayors' CSV whose commune is a large city
mayor(row) ==
    [name |-> Strip(Format(row.Prenom) \o <<" ">> \o Format(row.Nom)),
     first_name |-> row.Prenom,
     last_name |-> row.Nom,
     party |-> Or(row.Nuance, <<"N", "o", "n", " ", "r", "e", "n", "s", "e", "i", "g", "n", "e'">>),
     position |-> <<"M", "a", "i", "r", "e", " ", "d", "e", " ">> \o Format(row.Commune),
     constituency |-> row.Commune,
     political_orientation |-> _determine_orientation(row.Nuance),
     credibility_score |-> 70]

MayorSelected(row) == Upper(row.Commune) \in grandes_villes

\* a row on which the loop body raises: .upper() of a commune that is not a
\* str, or the classifier on a nuance that is not a str
MayorRaises(row) ==
    \/ ~IsStr(row.Commune)
    \/ MayorSelected(row) /\ _determine_orientation(row.Nuance) = "AttributeError"

\* fetch_maires_principales_villes() on the rows of the downloaded CSV
parse_maires(df) ==
    IF \E k \in 1..Len(df) : MayorRaises(df[k])
    THEN [status |-> "error", list |-> <<>>]
    ELSE LET selected == SelectSeq(df, MayorSelected)
         IN  [status |-> "ok",
              list |-> [k \in 1..Len(selected) |-> _assign_visual_elements(mayor(selected[k]))]]

-----------------------------------------------------------------------------
(* The deduplicator *)

\* the key without .lower()
DedupKeyCaseSensitive(first_name, last_name) ==
    Replace(first_name \o <<"_">> \o last_name, " ", "_")

\* the dedup key of an entity whose names are already stripped
DedupKey(first_name, last_name) ==
    Replace(Lower(first_name) \o <<"_">> \o Lower(last_name), " ", "_")

\* the fields _clean_and_deduplicate strips, in the order it strips them
CleanedFields == <<"name", "first_name", "last_name", "party">>

\* the cleaning without the assignment of party
CleanFieldsSkipsParty(politician) ==
    [f \in DOMAIN politician \cup {"name", "first_name", "last_name"} |->
        IF f \in {"name", "first_name", "last_name"}
        THEN Strip(Get(politician, f, <<>>)) ELSE politician[f]]

\* one entity after the four assignments
\* politician[f] = politician.get(f, '').strip(): a key the entity lacks is
\* created with ''; only called when the four values read are str
CleanFields(politician) ==
    [f \in DOMAIN politician \cup {CleanedFields[k] : k \in 1..Len(CleanedFields)} |->
        IF \E k \in 1..Len(CleanedFields) : CleanedFields[k] = f
        THEN Strip(Get(politician, f, <<>>)) ELSE politician[f]]

\* the entity as the exception leaves it: the fields before the first one
\* that is not a str are stripped (and created, when the entity lacked them)
CleanFieldsUntilRaise(politician) ==
    LET bad == CHOOSE k \in 1..Len(CleanedFields) :
                   /\ ~IsStr(Get(politician, CleanedFields[k], <<>>))
                   /\ \A m \in 1..(k - 1) : IsStr(Get(politician, CleanedFields[m], <<>>))
    IN  [f \in DOMAIN politician \cup {CleanedFields[k] : k \in 1..(bad - 1)} |->
            IF \E k \in 1..(bad - 1) : CleanedFields[k] = f
            THEN Strip(Get(politician, f, <<>>)) ELSE politician[f]]

\* .strip() is called on a value that is not a str
CleanRaises(politician) ==
    \E k \in 1..Len(CleanedFields) : ~IsStr(Get(politician, CleanedFields[k], <<>>))

\* politician['position'] is read on an entity without that key: the `and`
\* chain reaches it when the key is new and the name is not empty
PositionRaises(politician, seen) ==
    /\ "position" \notin DOMAIN politician
    /\ politician.name # <<>>
    /\ DedupKey(politician.first_name, politician.last_name) \notin seen

\* the condition without `key not in seen`
DedupKeepsSeen(politician, seen) ==
    LET key == DedupKey(politician.first_name, politician.last_name)
    IN  /\ politician.name # <<>>
        /\ Truthy(politician.position)
        /\ key # <<"_">>

\* the condition without the validity tests
DedupKeepsInvalid(politician, seen) ==
    DedupKey(politician.first_name, politician.last_name) \notin seen

\* the condition under which the loop appends the (cleaned) entity
DedupKeeps(politician, seen) ==
    LET key == DedupKey(politician.first_name, politician.last_name)
    IN  /\ key \notin seen
        /\ politician.name # <<>>
        /\ Truthy(politician.position)
        /\ key # <<"_">>

\* the loop with the key computed before the fields are stripped
RECURSIVE DedupLoopKeyBeforeClean(_, _, _, _, _)
DedupLoopKeyBeforeClean(list, k, seen, cleaned, kept_at) ==
    IF k > Len(list)
    THEN [raised |-> "none", cleaned |-> cleaned, kept |-> kept_at, list |-> list]
    ELSE IF CleanRaises(list[k])
    THEN [raised |-> "AttributeError", cleaned |-> <<>>, kept |-> <<>>,
          list |-> [list EXCEPT ![k] = CleanFieldsUntilRaise(list[k])]]
    ELSE LET p == CleanFields(list[k])
             raw == [p EXCEPT !.first_name = Get(list[k], "first_name", <<>>),
                              !.last_name = Get(list[k], "last_name", <<>>)]
             key == DedupKey(raw.first_name, raw.last_name)
             next == [list EXCEPT ![k] = p]
         IN  IF PositionRaises(raw, seen)
             THEN [raised |-> "KeyError", cleaned |-> <<>>, kept |-> <<>>, list |-> next]
             ELSE IF DedupKeeps(raw, seen)
             THEN DedupLoopKeyBeforeClean(next, k + 1, seen \cup {key}, Append(cleaned, p),
                                          Append(kept_at, k))
             ELSE DedupLoopKeyBeforeClean(next, k + 1, seen, cleaned, kept_at)

\* the loop with seen.add(key) moved out of the if: every key met is recorded
RECURSIVE DedupLoopMarksDropped(_, _, _, _, _)
DedupLoopMarksDropped(list, k, seen, cleaned, kept_at) ==
    IF k > Len(list)
    THEN [raised |-> "none", cleaned |-> cleaned, kept |-> kept_at, list |-> list]
    ELSE IF CleanRaises(list[k])
    THEN [raised |-> "AttributeError", cleaned |-> <<>>, kept |-> <<>>,
          list |-> [list EXCEPT ![k] = CleanFieldsUntilRaise(list[k])]]
    ELSE LET p == CleanFields(list[k])
             key == DedupKey(p.first_name, p.last_name)
             next == [list EXCEPT ![k] = p]
         IN  IF PositionRaises(p, seen)
             THEN [raised |-> "KeyError", cleaned |-> <<>>, kept |-> <<>>, list |-> next]
             ELSE IF DedupKeeps(p, seen)
             THEN DedupLoopMarksDropped(next, k + 1, seen \cup {key}, Append(cleaned, p),
                                        Append(kept_at, k))
             ELSE DedupLoopMarksDropped(next, k + 1, seen \cup {key}, cleaned, kept_at)

\* the for loop of _clean_and_deduplicate from entity k on; `list` is the input
\* list, whose dicts the loop changes in place; kept_at lists the positions appended
RECURSIVE DedupLoop(_, _, _, _, _)
DedupLoop(list, k, seen, cleaned, kept_at) ==
    IF k > Len(list)
    THEN [raised |-> "none", cleaned |-> cleaned, kept |-> kept_at, list |-> list]
    ELSE IF CleanRaises(list[k])
    THEN [raised |-> "AttributeError", cleaned |-> <<>>, kept |-> <<>>,
          list |-> [list EXCEPT ![k] = CleanFieldsUntilRaise(list[k])]]
    ELSE LET p == CleanFields(list[k])
             key == DedupKey(p.first_name, p.last_name)
             next == [list EXCEPT ![k] = p]
         IN  IF PositionRaises(p, seen)
             THEN [raised |-> "KeyError", cleaned |-> <<>>, kept |-> <<>>, list |-> next]
             ELSE IF DedupKeeps(p, seen)
             THEN DedupLoop(next, k + 1, seen \cup {key}, Append(cleaned, p),
                            Append(kept_at, k))
             ELSE DedupLoop(next, k + 1, seen, cleaned, kept_at)

\* _clean_and_deduplicate(politicians): the list returned (cleaned), the
\* exception raised instead (raised: AttributeError of .strip() on a value
\* that is not a str, KeyError of politician['position'] on an entity
\* without that key), the argument as the call leaves it (list)
\* and, for the record, the positions of the argument that were kept (kept)
_clean_and_deduplicate(list) == DedupLoop(list, 1, {}, <<>>, <<>>)

\* the value `again` holds as long as no second call has been made
NotCalled == [raised |-> "unset", cleaned |-> <<>>, kept |-> <<>>, list |-> <<>>]

-----------------------------------------------------------------------------
(* Inputs: what the environment may hold or answer *)

\* sequences over S of length at most n
SeqsUpTo(S, n) == UNION {[1..m -> S] : m \in 0..n}

\* os.getenv of a variable: unset, set to '', set to a usable value
EnvValues == {None, <<>>, <<"x">>}

\* 'acteur' objects the Assemblee nationale export may hold
DeputeRows == {
    \* a deputy who is also a minister of the literal list
    [prenom |-> <<"M", "a", "n", "u", "e", "l">>, nom |-> <<"V", "a", "l", "l", "s">>,
     mandat |-> [shape |-> "list", numCirconscription |-> <<"1">>, departement |-> <<"E", "s", "s", "o", "n", "n", "e">>,
                 organes |-> <<[codeType |-> "ASSEMBLEE", libelle |-> <<"A", "N">>],
                               [codeType |-> "GP", libelle |-> <<"P", "a", "r", "t", "i", " ", "s", "o", "c", "i", "a", "l", "i", "s", "t", "e">>]>>]],
    \* no 'prenom' and no 'nom' key under etatCivil
    [prenom |-> <<>>, nom |-> <<>>,
     mandat |-> [shape |-> "list", numCirconscription |-> <<"2">>, departement |-> <<"N", "o", "r", "d">>,
                 organes |-> <<[codeType |-> "ASSEMBLEE", libelle |-> <<"A", "N">>]>>]],
    \* a null first name
    [prenom |-> None, nom |-> <<"M", "a", "r", "t", "i", "n">>,
     mandat |-> [shape |-> "list", numCirconscription |-> <<"3">>, departement |-> <<"V", "a", "r">>,
                 organes |-> <<[codeType |-> "GP", libelle |-> <<"R", "e", "n", "a", "i", "s", "s", "a", "n", "c", "e">>]>>]],
    \* mandats.mandat is one object, not a list
    [prenom |-> <<"M", "a", "r", "i", "n", "e">>, nom |-> <<"L", "e", " ", "P", "e", "n">>,
     mandat |-> [shape |-> "dict", numCirconscription |-> <<"1", "1">>, departement |-> <<"P", "a", "s", "-", "d", "e", "-", "C", "a", "l", "a", "i", "s">>,
                 organes |-> <<[codeType |-> "GP", libelle |-> <<"R", "a", "s", "s", "e", "m", "b", "l", "e", "m", "e", "n", "t", " ", "N", "a", "t", "i", "o", "n", "a", "l">>]>>]] }

\* rows the senators' CSV may hold (a missing column reads as '', an empty cell as NaN)
SenatRows == {
    [Prenom |-> <<"J", "e", "a", "n">>, NomUsage |-> <<"D", "u", "p", "o", "n", "t">>, Nom |-> <<"D", "u", "p", "o", "n", "t">>,
     Groupe |-> <<"L", "e", "s", " ", "R", "e'", "p", "u", "b", "l", "i", "c", "a", "i", "n", "s">>, Departement |-> <<"P", "a", "r", "i", "s">>, Fin |-> NaN],
    \* a senator who is also a minister of the literal list, spelt otherwise
    [Prenom |-> <<"E'", "l", "i", "s", "a", "b", "e", "t", "h", " ">>, NomUsage |-> <<"B", "O", "R", "N", "E">>, Nom |-> <<"B", "O", "R", "N", "E">>,
     Groupe |-> <<"R", "D", "P", "I">>, Departement |-> <<"C", "a", "l", "v", "a", "d", "o", "s">>, Fin |-> NaN],
    \* the name columns are missing from the file
    [Prenom |-> <<>>, NomUsage |-> <<>>, Nom |-> <<>>,
     Groupe |-> <<"U", "C">>, Departement |-> <<"A", "i", "n">>, Fin |-> NaN],
    \* empty name cells
    [Prenom |-> NaN, NomUsage |-> NaN, Nom |-> <<"D", "u", "r", "a", "n", "d">>,
     Groupe |-> <<"U", "C">>, Departement |-> <<"L", "o", "t">>, Fin |-> NaN],
    \* an empty group cell
    [Prenom |-> <<"P", "a", "u", "l">>, NomUsage |-> <<"P", "e", "t", "i", "t">>, Nom |-> <<"P", "e", "t", "i", "t">>,
     Groupe |-> NaN, Departement |-> <<"J", "u", "r", "a">>, Fin |-> NaN],
    \* a senator whose mandate has ended
    [Prenom |-> <<"L", "u", "c">>, NomUsage |-> <<"R", "o", "u", "x">>, Nom |-> <<"R", "o", "u", "x">>,
     Groupe |-> <<"L", "R">>, Departement |-> <<"G", "e", "r", "s">>, Fin |-> <<"2", "0", "2", "3", "-", "1", "0", "-", "0", "1">>] }

\* rows the mayors' CSV may hold
MaireRows == {
    [Prenom |-> <<"A", "n", "n", "e">>, Nom |-> <<"H", "i", "d", "a", "l", "g", "o">>, Nuance |-> <<"P", "a", "r", "t", "i", " ", "s", "o", "c", "i", "a", "l", "i", "s", "t", "e">>,
     Commune |-> <<"P", "a", "r", "i", "s">>],
    \* a mayor who is also a minister of the literal list
    [Prenom |-> <<"R", "A", "C", "H", "I", "D", "A">>, Nom |-> <<"D", "A", "T", "I">>, Nuance |-> <<"L", "R">>, Commune |-> <<"P", "a", "r", "i", "s">>],
    \* a commune that is not one of grandes_villes
    [Prenom |-> <<"G", "u", "y">>, Nom |-> <<"B", "l", "a", "n", "c">>, Nuance |-> <<"D", "V", "D">>, Commune |-> <<"T", "r", "i", "f", "o", "u", "i", "l", "l", "y">>],
    \* an empty first name cell
    [Prenom |-> NaN, Nom |-> <<"M", "a", "r", "t", "i", "n">>, Nuance |-> <<"D", "V", "G">>, Commune |-> <<"N", "i", "c", "e">>],
    \* an empty nuance cell
    [Prenom |-> <<"M", "a", "r", "c">>, Nom |-> <<"N", "o", "i", "r">>, Nuance |-> NaN, Commune |-> <<"L", "i", "l", "l", "e">>] }

-----------------------------------------------------------------------------
(* The run: main(), __init__ and populate_database *)

Sources == {"deputes", "senateurs", "ministres", "maires"}

\* rows the sources have served so far
RECURSIVE RowsServed(_)
RowsServed(reqs) ==
    IF reqs = <<>> THEN 0 ELSE reqs[Len(reqs)].rows + RowsServed(SubSeq(reqs, 1, Len(reqs) - 1))

RowsLeft == MaxRaw - RowsServed(requests)

SourceError(who) == [kind |-> "source", who |-> who]

\* main(): `except Exception as e: ... logging.error(f"Erreur critique POLITIKCRED: {e}")`
CriticalError == [kind |-> "critical", who |-> "main"]

\* __init__ testing SUPABASE_URL only
ConstructUrlOnly ==
    /\ pc = "main"
    /\ IF ~Truthy(env.SUPABASE_URL)
       THEN raised' = "ValueError" /\ errlog' = Append(errlog, CriticalError) /\ pc' = "done"
       ELSE raised' = raised /\ errlog' = errlog /\ pc' = "deputes"
    /\ UNCHANGED <<againVars, styleVars, assetVars, env, classVars, fetchVars, cleaned_politicians, kept, insertVars,
                   result>>

\* PolitikCredDataFetcher.__init__ as main() calls it: the ValueError of a
\* missing variable leaves the constructor and is caught by main(), which
\* logs it as an error
Construct ==
    /\ pc = "main"
    /\ IF ~Truthy(env.SUPABASE_URL) \/ ~Truthy(env.SUPABASE_ANON_KEY)
       THEN raised' = "ValueError" /\ errlog' = Append(errlog, CriticalError) /\ pc' = "done"
       ELSE raised' = raised /\ errlog' = errlog /\ pc' = "deputes"
    /\ UNCHANGED <<againVars, styleVars, assetVars, env, classVars, fetchVars, cleaned_politicians, kept, insertVars,
                   result>>

\* RequestDeputesFail without the loop over urls_to_try: the first failure
\* is the adapter's failure
RequestDeputesFailGivesUp ==
    /\ pc = "deputes"
    /\ LET u == Len(requests) + 1
       IN  requests' = Append(requests, [url |-> urls_to_try[u], status |-> "error", rows |-> 0,
                                         data |-> <<>>])
    /\ errlog' = Append(errlog, SourceError("deputes"))
    /\ fetched' = [fetched EXCEPT !["deputes"] = 0]
    /\ pc' = "senateurs"
    /\ UNCHANGED <<againVars, styleVars, assetVars, env, classVars, all_politicians, cleaned_politicians, kept, insertVars,
                   result, raised>>

\* fetch_deputes: requests.get of the next endpoint fails
RequestDeputesFail ==
    /\ pc = "deputes"
    /\ LET u == Len(requests) + 1
       IN  /\ requests' = Append(requests, [url |-> urls_to_try[u], status |-> "error", rows |-> 0,
                                     data |-> <<>>])
           /\ IF u = Len(urls_to_try)
              THEN /\ errlog' = Append(errlog, SourceError("deputes"))
                   /\ fetched' = [fetched EXCEPT !["deputes"] = 0]
                   /\ pc' = "senateurs"
              ELSE UNCHANGED <<errlog, fetched, pc>>
    /\ UNCHANGED <<againVars, styleVars, assetVars, env, classVars, all_politicians, cleaned_politicians, kept, insertVars,
                   result, raised>>

\* fetch_deputes: the next endpoint answers; the loop breaks and the answer is parsed
RequestDeputesOk ==
    /\ pc = "deputes"
    /\ \E data \in {[empty |-> TRUE, acteurs |-> <<>>]}
                   \cup {[empty |-> FALSE, acteurs |-> a] : a \in SeqsUpTo(DeputeRows, RowsLeft)} :
         LET u == Len(requests) + 1
             r == parse_deputes(data)
         IN  /\ requests' = Append(requests, [url |-> urls_to_try[u], status |-> "ok",
                                               rows |-> Len(data.acteurs),
                                               data |-> data.acteurs])
             /\ errlog' = IF r.status = "error" THEN Append(errlog, SourceError("deputes"))
                          ELSE errlog
             /\ all_politicians' = all_politicians \o r.list
             /\ fetched' = [fetched EXCEPT !["deputes"] = Len(r.list)]
    /\ pc' = "senateurs"
    /\ UNCHANGED <<againVars, styleVars, assetVars, env, classVars, cleaned_politicians, kept, insertVars, result, raised>>

\* fetch_senateurs: the download or read_csv fails
FetchSenateursFail ==
    /\ pc = "senateurs"
    /\ requests' = Append(requests, [url |-> "ODSEN_GENERAL.csv", status |-> "error", rows |-> 0,
                                     data |-> <<>>])
    /\ errlog' = Append(errlog, SourceError("senateurs"))
    /\ fetched' = [fetched EXCEPT !["senateurs"] = 0]
    /\ pc' = "ministres"
    /\ UNCHANGED <<againVars, styleVars, assetVars, env, classVars, all_politicians, cleaned_politicians, kept, insertVars,
                   result, raised>>

\* fetch_senateurs: the CSV is read and its rows are turned into senators
FetchSenateursOk ==
    /\ pc = "senateurs"
    /\ \E df \in SeqsUpTo(SenatRows, RowsLeft) :
         LET r == parse_senateurs(df)
         IN  /\ requests' = Append(requests, [url |-> "ODSEN_GENERAL.csv", status |-> "ok",
                                               rows |-> Len(df), data |-> df])
             /\ errlog' = IF r.status = "error" THEN Append(errlog, SourceError("senateurs"))
                          ELSE errlog
             /\ all_politicians' = all_politicians \o r.list
             /\ fetched' = [fetched EXCEPT !["senateurs"] = Len(r.list)]
    /\ pc' = "ministres"
    /\ UNCHANGED <<againVars, styleVars, assetVars, env, classVars, cleaned_politicians, kept, insertVars, result, raised>>

\* fetch_ministres_gouvernement_bayrou: no request, no try / except
FetchMinistres ==
    /\ pc = "ministres"
    /\ all_politicians' = all_politicians \o fetch_ministres_gouvernement_bayrou
    /\ fetched' = [fetched EXCEPT !["ministres"] = Len(fetch_ministres_gouvernement_bayrou)]
    /\ pc' = "maires"
    /\ UNCHANGED <<againVars, styleVars, assetVars, env, classVars, requests, cleaned_politicians, kept, insertVars,
                   errlog, result, raised>>

\* fetch_maires_principales_villes: the download or read_csv fails
FetchMairesFail ==
    /\ pc = "maires"
    /\ requests' = Append(requests, [url |-> "maires.csv", status |-> "error", rows |-> 0,
                                     data |-> <<>>])
    /\ errlog' = Append(errlog, SourceError("maires"))
    /\ fetched' = [fetched EXCEPT !["maires"] = 0]
    /\ pc' = "dedup"
    /\ UNCHANGED <<againVars, styleVars, assetVars, env, classVars, all_politicians, cleaned_politicians, kept, insertVars,
                   result, raised>>

\* fetch_maires_principales_villes: the CSV is read and its rows are turned into mayors
FetchMairesOk ==
    /\ pc = "maires"
    /\ \E df \in SeqsUpTo(MaireRows, RowsLeft) :
         LET r == parse_maires(df)
         IN  /\ requests' = Append(requests, [url |-> "maires.csv", status |-> "ok",
                                               rows |-> Len(df), data |-> df])
             /\ errlog' = IF r.status = "error" THEN Append(errlog, SourceError("maires"))
                          ELSE errlog
             /\ all_politicians' = all_politicians \o r.list
             /\ fetched' = [fetched EXCEPT !["maires"] = Len(r.list)]
    /\ pc' = "dedup"
    /\ UNCHANGED <<againVars, styleVars, assetVars, env, classVars, cleaned_politicians, kept, insertVars, result, raised>>

\* populate_database from the call of _clean_and_deduplicate to the call of
\* insert_politicians_batch (default batch_size), or to `return 0`, or to the
\* AttributeError that leaves populate_database and is caught by main(),
\* which logs it as an error
CleanAndDeduplicate ==
    /\ pc = "dedup"
    /\ LET r == _clean_and_deduplicate(all_politicians)
       IN  /\ all_politicians' = r.list
           /\ cleaned_politicians' = r.cleaned
           /\ kept' = r.kept
           /\ raised' = r.raised
           /\ IF r.raised # "none"
              THEN /\ pc' = "done"
                   /\ errlog' = Append(errlog, CriticalError)
                   /\ UNCHANGED <<politicians, batch_size, result>>
              ELSE IF r.cleaned = <<>>
              THEN pc' = "done" /\ result' = 0 /\ UNCHANGED <<politicians, batch_size, errlog>>
              ELSE /\ pc' = "batch"
                   /\ politicians' = r.cleaned
                   /\ batch_size' = DefaultBatchSize
                   /\ UNCHANGED <<result, errlog>>
    /\ UNCHANGED <<againVars, styleVars, assetVars, env, classVars, requests, fetched, i, j, total_inserted, store, calls>>

\* what the value returned by populate_database holds: `return inserted_count`
\* and `return 0` both return the number of inserted records, nothing else
populate_database_returns == {"total_inserted"}

-----------------------------------------------------------------------------
(* insert_politicians_batch *)

\* the batch politicians[i:i + batch_size], as its first and last position (1-based)
BatchFirst == i + 1
BatchLastOverlapping ==
    IF i + batch_size + 1 < Len(politicians) THEN i + batch_size + 1 ELSE Len(politicians)
BatchLast == IF i + batch_size < Len(politicians) THEN i + batch_size ELSE Len(politicians)

\* i // batch_size + 1
BatchNumber == (i \div batch_size) + 1

StoreFailures == Cardinality({k \in 1..Len(calls) : ~calls[k].ok})

\* BulkInsertOk entering the fallback loop although the bulk insert went through
BulkInsertOkThenFallback ==
    /\ pc = "batch"
    /\ i < Len(politicians)
    /\ calls' = Append(calls, [kind |-> "bulk", first |-> BatchFirst, last |-> BatchLast,
                               ok |-> TRUE])
    /\ store' = store \o [k \in 1..(BatchLast - BatchFirst + 1) |-> BatchFirst + k - 1]
    /\ total_inserted' = total_inserted + (BatchLast - BatchFirst + 1)
    /\ j' = 1
    /\ pc' = "fallback"
    /\ UNCHANGED <<againVars, styleVars, assetVars, env, classVars, fetchVars, cleaned_politicians, kept, politicians,
                   batch_size, i, errlog, result, raised>>

\* the bulk insert of the current batch succeeds
BulkInsertOk ==
    /\ pc = "batch"
    /\ i < Len(politicians)
    /\ calls' = Append(calls, [kind |-> "bulk", first |-> BatchFirst, last |-> BatchLast,
                               ok |-> TRUE])
    /\ store' = store \o [k \in 1..(BatchLast - BatchFirst + 1) |-> BatchFirst + k - 1]
    /\ total_inserted' = total_inserted + (BatchLast - BatchFirst + 1)
    /\ i' = i + batch_size
    /\ UNCHANGED <<againVars, styleVars, assetVars, pc, env, classVars, fetchVars, cleaned_politicians, kept, politicians,
                   batch_size, j, errlog, result, raised>>

\* BulkInsertFail with the counter raised before the call was made
BulkInsertFailCounted ==
    /\ pc = "batch"
    /\ i < Len(politicians)
    /\ calls' = Append(calls, [kind |-> "bulk", first |-> BatchFirst, last |-> BatchLast,
                               ok |-> FALSE])
    /\ errlog' = Append(errlog, [kind |-> "batch", who |-> BatchNumber])
    /\ total_inserted' = total_inserted + (BatchLast - BatchFirst + 1)
    /\ j' = 1
    /\ pc' = "fallback"
    /\ UNCHANGED <<againVars, styleVars, assetVars, env, classVars, fetchVars, cleaned_politicians, kept, politicians,
                   batch_size, i, store, result, raised>>

\* the bulk insert of the current batch raises: nothing is stored, the error
\* is logged and the fallback loop starts
BulkInsertFail ==
    /\ pc = "batch"
    /\ i < Len(politicians)
    /\ calls' = Append(calls, [kind |-> "bulk", first |-> BatchFirst, last |-> BatchLast,
                               ok |-> FALSE])
    /\ errlog' = Append(errlog, [kind |-> "batch", who |-> BatchNumber])
    /\ j' = 1
    /\ pc' = "fallback"
    /\ UNCHANGED <<againVars, styleVars, assetVars, env, classVars, fetchVars, cleaned_politicians, kept, politicians,
                   batch_size, i, total_inserted, store, result, raised>>

\* the fallback loop moves past record j of the batch
NextRecord ==
    IF BatchFirst + j - 1 = BatchLast
    THEN i' = i + batch_size /\ j' = 0 /\ pc' = "batch"
    ELSE i' = i /\ j' = j + 1 /\ pc' = "fallback"

\* RecordInsertOk without `total_inserted += 1`
RecordInsertOkUncounted ==
    /\ pc = "fallback"
    /\ LET at == BatchFirst + j - 1
       IN  /\ calls' = Append(calls, [kind |-> "single", first |-> at, last |-> at, ok |-> TRUE])
           /\ store' = Append(store, at)
    /\ NextRecord
    /\ UNCHANGED <<againVars, styleVars, assetVars, env, classVars, fetchVars, cleaned_politicians, kept, politicians,
                   batch_size, total_inserted, errlog, result, raised>>

\* the insert of record j of the failed batch succeeds
RecordInsertOk ==
    /\ pc = "fallback"
    /\ LET at == BatchFirst + j - 1
       IN  /\ calls' = Append(calls, [kind |-> "single", first |-> at, last |-> at, ok |-> TRUE])
           /\ store' = Append(store, at)
    /\ total_inserted' = total_inserted + 1
    /\ NextRecord
    /\ UNCHANGED <<againVars, styleVars, assetVars, env, classVars, fetchVars, cleaned_politicians, kept, politicians,
                   batch_size, errlog, result, raised>>

\* RecordInsertFail leaving the fallback loop (a `break` in the handler)
RecordInsertFailBreaks ==
    /\ pc = "fallback"
    /\ LET at == BatchFirst + j - 1
       IN  /\ calls' = Append(calls, [kind |-> "single", first |-> at, last |-> at, ok |-> FALSE])
           /\ errlog' = Append(errlog, [kind |-> "record", who |-> politicians[at].name])
    /\ i' = i + batch_size /\ j' = 0 /\ pc' = "batch"
    /\ UNCHANGED <<againVars, styleVars, assetVars, env, classVars, fetchVars, cleaned_politicians, kept, politicians,
                   batch_size, total_inserted, store, result, raised>>

\* RecordInsertFail with the exception leaving insert_politicians_batch (no
\* inner try): the function ends there with what it has counted
RecordInsertFailAborts ==
    /\ pc = "fallback"
    /\ LET at == BatchFirst + j - 1
       IN  /\ calls' = Append(calls, [kind |-> "single", first |-> at, last |-> at, ok |-> FALSE])
           /\ errlog' = Append(errlog, [kind |-> "record", who |-> politicians[at].name])
    /\ result' = total_inserted
    /\ pc' = "done"
    /\ UNCHANGED <<againVars, styleVars, assetVars, env, classVars, fetchVars, cleaned_politicians, kept, politicians,
                   batch_size, i, j, total_inserted, store, raised>>

\* the insert of record j of the failed batch raises: the error is logged
\* with politician.get('name', 'Unknown')
RecordInsertFail ==
    /\ pc = "fallback"
    /\ LET at == BatchFirst + j - 1
       IN  /\ calls' = Append(calls, [kind |-> "single", first |-> at, last |-> at, ok |-> FALSE])
           /\ errlog' = Append(errlog, [kind |-> "record", who |-> politicians[at].name])
    /\ NextRecord
    /\ UNCHANGED <<againVars, styleVars, assetVars, env, classVars, fetchVars, cleaned_politicians, kept, politicians,
                   batch_size, total_inserted, store, result, raised>>

\* range(0, len(politicians), batch_size) is exhausted: return total_inserted
\* (populate_database returns the same number)
InsertReturn ==
    /\ pc = "batch"
    /\ i >= Len(politicians)
    /\ result' = total_inserted
    /\ pc' = "done"
    /\ UNCHANGED <<againVars, styleVars, assetVars, env, classVars, fetchVars, cleaned_politicians, kept, insertVars,
                   errlog, raised>>

-----------------------------------------------------------------------------
(* The functions checked alone *)

\* party labels: one or two words, glued or spaced, as written or in capitals
LabelWords == {orientations[k].key : k \in 1..Len(orientations)}
                  \cup {<<>>, <<"L", "e", "s", " ", "R", "e'", "p", "u", "b", "l", "i", "c", "a", "i", "n", "s">>, <<"N", "o", "n", " ", "i", "n", "s", "c", "r", "i", "t">>, <<"D", "i", "v", "e", "r", "s", " ", "g", "a", "u", "c", "h", "e">>, <<"U", "D", "I">>}

PartyLabels ==
    LET plain == {pre \o w1 \o mid \o w2 :
                     pre \in {<<>>, <<"G", "r", "o", "u", "p", "e", " ">>}, w1 \in LabelWords,
                     mid \in {<<>>, <<" ", "-", " ">>}, w2 \in LabelWords}
    IN  plain \cup {Upper(p) : p \in plain} \cup {NaN, None}

\* the label of the calls made between two calls on the label under check:
\* a senate group that holds a keyword of the table
InterveningLabels == {<<"L", "R">>}

\* a call of _determine_orientation on the same object: the first call is on
\* the label under check, a later one on that label again or on another
DetermineOrientation ==
    /\ pc = "classify"
    /\ ncalls < MaxCalls
    /\ \E p \in (IF ncalls = 0 THEN {party} ELSE {history[1].party} \cup InterveningLabels) :
           LET returned == _determine_orientation(p)
           IN  /\ party' = p
               /\ orientation' = returned
               /\ history' = Append(history, [party |-> p, orientation |-> returned])
    /\ prev_orientation' = orientation
    /\ ncalls' = ncalls + 1
    /\ UNCHANGED <<againVars, styleVars, assetVars, pc, env, fetchVars, cleaned_politicians, kept, insertVars,
                   errlog, result, raised>>

\* entities handed to _clean_and_deduplicate: names with capitals, outer and
\* inner spaces, a missing name, a missing position, two scores
DedupEntities ==
    LET shape == {[position |-> <<"D", "e'", "p", "u", "t", "e'">>, credibility_score |-> 100, named |-> TRUE],
                  [position |-> <<"S", "e'", "n", "a", "t", "e", "u", "r">>, credibility_score |-> 60, named |-> TRUE],
                  [position |-> <<>>, credibility_score |-> 100, named |-> TRUE],
                  [position |-> <<"M", "a", "i", "r", "e", " ", "d", "e", " ", "L", "y", "o", "n">>, credibility_score |-> 70, named |-> FALSE]}
    IN  {[name |-> IF s.named THEN Strip(f \o <<" ">> \o l) ELSE <<>>,
          first_name |-> f, last_name |-> l, party |-> <<" ", "L", "R", " ">>,
          position |-> s.position, constituency |-> <<>>,
          political_orientation |-> "center-right",
          credibility_score |-> s.credibility_score] :
            f \in {<<>>, <<"a">>, <<"A", " ">>, <<"a", " ", "b">>}, l \in {<<>>, <<"c">>, <<"b", " ", "c">>}, s \in shape}

\* a call of _clean_and_deduplicate on the list
CleanAndDeduplicateCall ==
    /\ pc = "clean"
    /\ LET r == _clean_and_deduplicate(all_politicians)
       IN  /\ all_politicians' = r.list
           /\ cleaned_politicians' = r.cleaned
           /\ kept' = r.kept
           /\ raised' = r.raised
    /\ pc' = "done"
    /\ UNCHANGED <<againVars, styleVars, assetVars, env, classVars, requests, fetched, insertVars, errlog, result>>

\* records handed to insert_politicians_batch: two entities of the literal list
SampleRecords == {fetch_ministres_gouvernement_bayrou[1], fetch_ministres_gouvernement_bayrou[9]}

-----------------------------------------------------------------------------
(* Specifications *)

IdleEnv == env = [SUPABASE_URL |-> <<"x">>, SUPABASE_ANON_KEY |-> <<"x">>]
IdleClass ==
    /\ party = <<>> /\ orientation = "unset" /\ prev_orientation = "unset" /\ ncalls = 0
    /\ history = <<>>
IdleFetch == requests = <<>> /\ fetched = [s \in Sources |-> -1] /\ all_politicians = <<>>
IdleDedup == cleaned_politicians = <<>> /\ kept = <<>>
IdleInsert ==
    /\ politicians = <<>> /\ batch_size = DefaultBatchSize /\ i = 0 /\ j = 0
    /\ total_inserted = 0 /\ store = <<>> /\ calls = <<>>
IdleOut == errlog = <<>> /\ result = -1 /\ raised = "none"
IdleStyle == to_style = <<>> /\ styled = <<>>
IdleAssets ==
    /\ rows = <<>> /\ asset_at = 1 /\ updated_count = 0 /\ pass = 0 /\ after_first = <<>>
IdleAgain == again = NotCalled

\* the run started by main()
Init ==
    /\ pc = "main"
    /\ env \in [{"SUPABASE_URL", "SUPABASE_ANON_KEY"} -> EnvValues]
    /\ IdleClass /\ IdleFetch /\ IdleDedup /\ IdleInsert /\ IdleOut
    /\ IdleStyle /\ IdleAssets /\ IdleAgain

Next ==
    \/ Construct
    \/ RequestDeputesFail
    \/ RequestDeputesOk
    \/ FetchSenateursFail
    \/ FetchSenateursOk
    \/ FetchMinistres
    \/ FetchMairesFail
    \/ FetchMairesOk
    \/ CleanAndDeduplicate
    \/ BulkInsertOk
    \/ (StoreFailures < MaxStoreFail /\ BulkInsertFail)
    \/ RecordInsertOk
    \/ (StoreFailures < MaxStoreFail /\ RecordInsertFail)
    \/ InsertReturn

Spec == Init /\ [][Next]_vars

\* _determine_orientation alone, on every label of PartyLabels
InitOrient ==
    /\ pc = "classify"
    /\ party \in PartyLabels
    /\ orientation = "unset" /\ prev_orientation = "unset" /\ ncalls = 0
    /\ history = <<>>
    /\ IdleEnv /\ IdleFetch /\ IdleDedup /\ IdleInsert /\ IdleOut
    /\ IdleStyle /\ IdleAssets /\ IdleAgain

NextOrient == DetermineOrientation

SpecOrient == InitOrient /\ [][NextOrient]_vars

\* _clean_and_deduplicate alone, on every list of at most MaxEnt entities
InitDedup ==
    /\ pc = "clean"
    /\ all_politicians \in SeqsUpTo(DedupEntities, MaxEnt)
    /\ requests = <<>> /\ fetched = [s \in Sources |-> -1]
    /\ IdleEnv /\ IdleClass /\ IdleDedup /\ IdleInsert /\ IdleOut
    /\ IdleStyle /\ IdleAssets /\ IdleAgain

NextDedup == CleanAndDeduplicateCall

SpecDedup == InitDedup /\ [][NextDedup]_vars

\* a second call of _clean_and_deduplicate, on the list the first one returned
\* (the variables of the first call keep what they held when it returned)
CleanAndDeduplicateAgain ==
    /\ pc = "done"
    /\ raised = "none"
    /\ again = NotCalled
    /\ again' = _clean_and_deduplicate(cleaned_politicians)
    /\ pc' = "again"
    /\ UNCHANGED <<styleVars, assetVars, env, classVars, fetchVars, cleaned_politicians, kept,
                   insertVars, errlog, result, raised>>

\* _clean_and_deduplicate called on a list and then on its own output
NextDedupTwice ==
    \/ CleanAndDeduplicateCall
    \/ CleanAndDeduplicateAgain

SpecDedupTwice == InitDedup /\ [][NextDedupTwice]_vars

\* insert_politicians_batch alone, on every list of at most MaxRecs records,
\* every batch_size up to MaxBatch and every outcome of every persistence call
InitInsert ==
    /\ pc = "batch"
    /\ politicians \in SeqsUpTo(SampleRecords, MaxRecs)
    /\ batch_size \in 1..MaxBatch
    /\ i = 0 /\ j = 0 /\ total_inserted = 0 /\ store = <<>> /\ calls = <<>>
    /\ IdleEnv /\ IdleClass /\ IdleFetch /\ IdleDedup /\ IdleOut
    /\ IdleStyle /\ IdleAssets /\ IdleAgain

NextInsert ==
    \/ BulkInsertOk
    \/ BulkInsertFail
    \/ RecordInsertOk
    \/ RecordInsertFail
    \/ InsertReturn

SpecInsert == InitInsert /\ [][NextInsert]_vars

\* insert_politicians_batch alone as a running program: the interpreter takes
\* the next step as long as there is one (every persistence call returns)
SpecInsertFair == InitInsert /\ [][NextInsert]_vars /\ WF_vars(NextInsert)

-----------------------------------------------------------------------------
(* Properties *)

\* persistence calls that reached position k of `politicians` and succeeded
InsertedAt(k) ==
    Cardinality({c \in 1..Len(calls) :
                    calls[c].ok /\ calls[c].first <= k /\ k <= calls[c].last})

\* individual inserts of position k that failed
FailedAt(k) ==
    Cardinality({c \in 1..Len(calls) :
                    calls[c].kind = "single" /\ ~calls[c].ok /\ calls[c].first = k})

\* the failed records as the run reports them: the per-record error lines
IsRecordError(e) == e.kind = "record"
FailedRecords == SelectSeq(errlog, IsRecordError)

\* the names of the positions of lo..hi whose individual insert failed, in order
RECURSIVE FailedNames(_, _)
FailedNames(lo, hi) ==
    IF lo > hi THEN <<>>
    ELSE (IF FailedAt(lo) > 0 THEN <<politicians[lo].name>> ELSE <<>>) \o FailedNames(lo + 1, hi)

\* C1: when insert_politicians_batch has returned, the count returned is at
\* most the number of records submitted, every submitted record is either
\* counted as inserted or reported as failed, never both and never neither,
\* and inserted + failed = submitted.
C1_EveryRecordAccountedOnce ==
    pc = "done" =>
        /\ result <= Len(politicians)
        /\ \A k \in 1..Len(politicians) : InsertedAt(k) + FailedAt(k) = 1
        /\ result = Cardinality({k \in 1..Len(politicians) : InsertedAt(k) = 1})
        /\ Len(FailedRecords) = Cardinality({k \in 1..Len(politicians) : FailedAt(k) = 1})
        /\ result + Len(FailedRecords) = Len(politicians)

\* a finished run in which a batch went through in bulk, a record of a failed
\* batch went through alone and another record of it failed
C1_Witness ==
    /\ pc = "done"
    /\ \E c \in 1..Len(calls) : calls[c].kind = "bulk" /\ calls[c].ok
    /\ \E c \in 1..Len(calls) : calls[c].kind = "single" /\ calls[c].ok
    /\ \E c \in 1..Len(calls) : calls[c].kind = "single" /\ ~calls[c].ok

\* C2: after a failed bulk insert every record of that batch is inserted
\* individually, once each and in batch order, right after the bulk call; a
\* record whose individual insert fails is reported with its name and is not
\* counted; the records after it and the batches after it are still
\* submitted, so a batch with exactly one rejected record adds its size minus
\* one to the count and one name to the failed records.
C2_FallbackRetriesEveryRecord ==
    pc = "done" =>
        /\ \A c \in 1..Len(calls) :
             (calls[c].kind = "bulk" /\ ~calls[c].ok) =>
                 LET n == calls[c].last - calls[c].first + 1
                 IN  /\ c + n <= Len(calls)
                     /\ \A m \in 1..n :
                          /\ calls[c + m].kind = "single"
                          /\ calls[c + m].first = calls[c].first + m - 1
                     /\ Cardinality({s \in 1..Len(store) :
                                        calls[c].first <= store[s] /\ store[s] <= calls[c].last})
                            = n - Cardinality({k \in calls[c].first..calls[c].last :
                                                  FailedAt(k) > 0})
        /\ \A k \in 1..Len(politicians) :
             \E c \in 1..Len(calls) :
                 calls[c].kind = "bulk" /\ calls[c].first <= k /\ k <= calls[c].last
        /\ [k \in 1..Len(FailedRecords) |-> FailedRecords[k].who]
               = FailedNames(1, Len(politicians))
        /\ result = Len(politicians) - Len(FailedRecords)

\* a first batch of three whose bulk insert failed and whose second record
\* alone was rejected, followed by a batch that went through
C2_Witness ==
    /\ pc = "done"
    /\ Len(politicians) = 4 /\ batch_size = 3
    /\ politicians[1].name # politicians[2].name
    /\ Len(calls) = 5
    /\ ~calls[1].ok /\ calls[2].ok /\ ~calls[3].ok /\ calls[4].ok /\ calls[5].ok
    /\ result = 3
    /\ Len(FailedRecords) = 1 /\ FailedRecords[1].who = politicians[2].name

\* the dedup key as lowercase first name, "_", lowercase last name, every
\* space turned into "_"
UnderscoredKey(e) ==
    LET s == Lower(e.first_name) \o <<"_">> \o Lower(e.last_name)
    IN  [k \in 1..Len(s) |-> IF s[k] = " " THEN "_" ELSE s[k]]

\* the dedup key as lowercase first name, "_", lowercase last name, every
\* space removed
NotSpace(c) == c # " "
SpacelessKey(e) ==
    SelectSeq(Lower(e.first_name), NotSpace) \o <<"_">> \o SelectSeq(Lower(e.last_name), NotSpace)

\* the validity invariant of an entity whose fields are trimmed
ValidEntity(e) == e.name # <<>> /\ e.position # <<>> /\ UnderscoredKey(e) # <<"_">>

Range(s) == {s[k] : k \in 1..Len(s)}

\* populate_database has called _clean_and_deduplicate and the call has returned
DedupReturned ==
    pc \in {"batch", "fallback", "done"} /\ raised = "none" /\ fetched["maires"] >= 0

\* the state in which the call returns: no persistence call made yet (the
\* lists the call worked on are left alone from there on)
DedupJustReturned == DedupReturned /\ calls = <<>>

\* the fetched lists stand in all_politicians in the order deputies,
\* senators, ministers, mayors
InSourceOrder ==
    LET d == fetched["deputes"]
        s == fetched["senateurs"]
        m == fetched["ministres"]
        y == fetched["maires"]
    IN  /\ Len(all_politicians) = d + s + m + y
        /\ \A k \in 1..d : all_politicians[k].position = <<"D", "e'", "p", "u", "t", "e'">>
        /\ \A k \in 1..s : all_politicians[d + k].position = <<"S", "e'", "n", "a", "t", "e", "u", "r">>
        /\ m = Len(ministres)
        /\ \A k \in 1..m : all_politicians[d + s + k].name = ministres[k].name
        /\ \A k \in 1..y : SubSeq(all_politicians[d + s + m + k].position, 1, 9) = <<"M", "a", "i", "r", "e", " ", "d", "e", " ">>

\* C3: when _clean_and_deduplicate returns, the list it was handed holds the
\* deputies, then the senators, then the ministers, then the mayors; the
\* output holds at most one entity per dedup key; an entity is in the output
\* exactly when it is valid and no valid entity before it has its key,
\* whatever the scores; the kept entities stand in their original order.
C3_FirstInSourceOrderSurvives ==
    DedupJustReturned =>
        /\ InSourceOrder
        /\ Len(kept) = Len(cleaned_politicians)
        /\ \A n \in 1..Len(kept) : cleaned_politicians[n] = all_politicians[kept[n]]
        /\ \A n \in 1..(Len(kept) - 1) : kept[n] < kept[n + 1]
        /\ \E key \in {[k \in 1..Len(all_politicians) |-> UnderscoredKey(all_politicians[k])]} :
           \E valid \in {[k \in 1..Len(all_politicians) |-> ValidEntity(all_politicians[k])]} :
               /\ \A a, b \in 1..Len(kept) : a # b => key[kept[a]] # key[kept[b]]
               /\ \A k \in 1..Len(all_politicians) :
                      k \in Range(kept) <=>
                          /\ valid[k]
                          /\ \A m \in 1..(k - 1) : valid[m] => key[m] # key[k]

\* a senator kept and the minister of the same key dropped although the
\* minister's score is the higher one
C3_Witness ==
    /\ DedupJustReturned
    /\ \E a, b \in 1..Len(all_politicians) :
           /\ a < b
           /\ a \in Range(kept) /\ b \notin Range(kept)
           /\ ValidEntity(all_politicians[b])
           /\ UnderscoredKey(all_politicians[a]) = UnderscoredKey(all_politicians[b])
           /\ all_politicians[a].position = <<"S", "e'", "n", "a", "t", "e", "u", "r">>
           /\ all_politicians[b].credibility_score > all_politicians[a].credibility_score

\* a name component that is absent: '' (a missing key or column), None or NaN
MissingName(v) == ~IsStr(v) \/ Strip(v) = <<>>

\* an entity emitted by a source without first and last name
Nameless(e) ==
    \E k \in 1..Len(all_politicians) :
        /\ all_politicians[k] = e
        /\ MissingName(e.first_name) /\ MissingName(e.last_name)

\* C4: every entity of the dedup output, and every entity handed to a
\* persistence call, has a non-empty name, a non-empty position and a key
\* other than "_"; an entity emitted without first and last name is in no
\* persistence call.  (Stated on the output as the deduplicator returns it
\* and on each persistence call as it is made.)
C4_OnlyValidEntitiesPersisted ==
    /\ DedupJustReturned =>
           \A n \in 1..Len(cleaned_politicians) : ValidEntity(cleaned_politicians[n])
    /\ calls # <<>> =>
           \A p \in calls[Len(calls)].first..calls[Len(calls)].last :
               /\ p \in 1..Len(cleaned_politicians)
               /\ politicians[p] = cleaned_politicians[p]
               /\ ValidEntity(politicians[p])
               /\ ~Nameless(politicians[p])

\* a finished run whose sources emitted an entity without first and last
\* name and whose other entities were inserted
C4_Witness ==
    /\ pc = "done" /\ result = Len(ministres)
    /\ \E k \in 1..Len(all_politicians) :
           /\ all_politicians[k].first_name = <<>> /\ all_politicians[k].last_name = <<>>
           /\ all_politicians[k].name = <<>>
           /\ all_politicians[k].position = <<"S", "e'", "n", "a", "t", "e", "u", "r">>

\* C5 as amended: the dedup key is lowercase first_name + "_" + lowercase
\* last_name with every space turned into "_"; a valid entity is dropped as
\* a duplicate exactly when a kept entity before it has an equal key.
C5_DuplicatesAreEqualUnderscoredKeys ==
    (pc = "done" /\ raised = "none") =>
        \A b \in 1..Len(all_politicians) :
            ValidEntity(all_politicians[b]) =>
                (b \notin Range(kept) <=>
                    \E a \in 1..(b - 1) :
                        /\ a \in Range(kept)
                        /\ UnderscoredKey(all_politicians[a]) = UnderscoredKey(all_politicians[b]))

\* C5 as stated: the key has every space removed, a valid entity is dropped
\* as a duplicate exactly when a kept entity before it has an equal key, and
\* entities whose first names differ once lowercased and rid of spaces are
\* never merged.
C5_DuplicatesAreEqualSpacelessKeys ==
    (pc = "done" /\ raised = "none") =>
        \A b \in 1..Len(all_politicians) :
            ValidEntity(all_politicians[b]) =>
                /\ b \notin Range(kept) <=>
                       \E a \in 1..(b - 1) :
                           /\ a \in Range(kept)
                           /\ SpacelessKey(all_politicians[a]) = SpacelessKey(all_politicians[b])
                /\ b \notin Range(kept) =>
                       \E a \in 1..(b - 1) :
                           /\ a \in Range(kept)
                           /\ SelectSeq(Lower(all_politicians[a].first_name), NotSpace)
                                  = SelectSeq(Lower(all_politicians[b].first_name), NotSpace)

\* 'a b' + 'c' and 'a' + 'b c': one key, the second entity dropped
C5_Witness ==
    /\ pc = "done" /\ raised = "none"
    /\ Len(all_politicians) = 2 /\ kept = <<1>>
    /\ all_politicians[1].first_name = <<"a", " ", "b">> /\ all_politicians[1].last_name = <<"c">>
    /\ all_politicians[2].first_name = <<"a">> /\ all_politicians[2].last_name = <<"b", " ", "c">>
    /\ ValidEntity(all_politicians[2])

ConfigMissing == ~Truthy(env.SUPABASE_URL) \/ ~Truthy(env.SUPABASE_ANON_KEY)

SourceFailed(s) == \E k \in 1..Len(errlog) : errlog[k] = SourceError(s)

\* C6 as stated: a source adapter that fails yields an empty list; the run
\* still fetches every other source, in order, hands their records to the
\* deduplicator and the persister, the fetched total is the sum of what the
\* succeeding sources returned, and no exception leaves populate_database.
C6_AdapterFailureContained ==
    \A s \in Sources :
        SourceFailed(s) =>
            /\ fetched[s] = 0
            /\ pc = "done" =>
                   /\ \A t \in Sources : fetched[t] >= 0
                   /\ InSourceOrder
                   /\ raised = "none"
                   /\ result >= 0
                   /\ \A p \in 1..Len(cleaned_politicians) :
                          \E c \in 1..Len(calls) : calls[c].first <= p /\ p <= calls[c].last

\* C7: with SUPABASE_URL or SUPABASE_ANON_KEY unset or empty the run ends
\* with the ValueError of __init__, having fetched no source and made no
\* persistence call, and nothing is inserted.
C7_MissingConfigAbortsBeforeAnyWork ==
    ConfigMissing =>
        /\ pc \in {"main", "done"}
        /\ pc = "done" => raised = "ValueError"
        /\ requests = <<>> /\ all_politicians = <<>>
        /\ calls = <<>> /\ store = <<>> /\ total_inserted = 0
        /\ result = -1

\* the run ended by the ValueError, the key being set to ''
C7_Witness ==
    /\ pc = "done" /\ raised = "ValueError"
    /\ env.SUPABASE_URL = <<"x">> /\ env.SUPABASE_ANON_KEY = <<>>

\* C8 as stated: a run with a valid configuration returns a summary holding
\* total_fetched, total_after_dedup, total_inserted and failed_records, and
\* raises nothing.
C8_RunReturnsSummary ==
    (~ConfigMissing /\ pc = "done") =>
        /\ raised = "none"
        /\ result >= 0
        /\ {"total_fetched", "total_after_dedup", "total_inserted", "failed_records"}
               \subseteq populate_database_returns

MatchingEntries(label) ==
    {k \in 1..Len(orientations) :
        \E at \in 1..Len(label) :
            /\ at + Len(orientations[k].key) - 1 <= Len(label)
            /\ \A m \in 1..Len(orientations[k].key) :
                   LowerChar(label[at + m - 1]) = orientations[k].key[m]}

\* C10: the classifier returns the orientation of the first keyword, in the
\* order of the table, that occurs in the lowercased label, wherever the
\* keywords sit in the label, and center when the label is empty or holds no
\* keyword.
C10_FirstKeywordInTableOrderWins ==
    (ncalls >= 1 /\ IsStr(party)) =>
        IF MatchingEntries(party) = {}
        THEN orientation = "center"
        ELSE \E k \in MatchingEntries(party) :
                 /\ \A m \in MatchingEntries(party) : k <= m
                 /\ orientation = orientations[k].orientation

\* a label in which 'lr' stands before 'parti socialiste', which comes first in the table
C10_Witness ==
    /\ ncalls >= 1
    /\ party = <<"l", "r", " ", "-", " ", "p", "a", "r", "t", "i", " ", "s", "o", "c", "i", "a", "l", "i", "s", "t", "e">>
    /\ orientation = "center-left"

-----------------------------------------------------------------------------
(* The party label 'Les Republicains' written with its accent *)

\* C11 as stated: the label 'Les Republicains', its first e written with an
\* acute accent (the token "e'"), is classified center-right.
C11_LesRepublicainsCenterRight ==
    (ncalls >= 1 /\ party = <<"L", "e", "s", " ", "R", "e'", "p", "u", "b", "l", "i", "c", "a", "i", "n", "s">>) => orientation = "center-right"

-----------------------------------------------------------------------------
(* _assign_visual_elements alone *)

\* first and last names handed to the styler: names of avatar_mapping in
\* other capitals and with outer spaces, a name with two inner spaces, a
\* name that only contains one of avatar_mapping, a name outside it
StyleNames ==
    {[first_name |-> <<"E'", "l", "i", "s", "a", "b", "e", "t", "h">>, last_name |-> <<"B", "o", "r", "n", "e">>],
     [first_name |-> <<" ", "S", "e'", "b", "a", "s", "t", "i", "e", "n">>, last_name |-> <<"L", "E", "C", "O", "R", "N", "U", " ">>],
     [first_name |-> <<"M", "a", "r", "i", "n", "e">>, last_name |-> <<"L", "e", " ", " ", "P", "e", "n">>],
     [first_name |-> <<"J", "e", "a", "n", "-", "M", "a", "r", "i", "n", "e">>, last_name |-> <<"L", "e", " ", "P", "e", "n">>],
     [first_name |-> <<"M", "a", "n", "u", "e", "l">>, last_name |-> <<"V", "a", "l", "l", "s">>]}

\* positions handed to the styler: each role keyword, in other capitals, two
\* keywords in one position, no keyword, the empty position
StylePositions ==
    {<<"P", "r", "e", "m", "i", "e", "r", " ", "m", "i", "n", "i", "s", "t", "r", "e">>, <<"M", "i", "n", "i", "s", "t", "r", "e", " ", "d", "'", "E'", "t", "a", "t", ",", " ", "m", "i", "n", "i", "s", "t", "r", "e", " ", "d", "e", " ", "l", "'", "I", "n", "t", "e'", "r", "i", "e", "u", "r">>, <<"D", "E'", "P", "U", "T", "E'">>,
     <<"S", "e'", "n", "a", "t", "e", "u", "r">>, <<"M", "a", "i", "r", "e", " ", "d", "e", " ", "P", "a", "r", "i", "s">>, <<"M", "a", "i", "r", "e", " ", "e", "t", " ", "d", "e'", "p", "u", "t", "e'">>, <<"p", "r", "e", "m", "i", "e", "r", " ", "m", "i", "n", "i", "s", "t", "r", "e", ",", " ", "m", "a", "i", "r", "e", " ", "d", "e", " ", "P", "a", "u">>,
     <<"C", "o", "n", "s", "e", "i", "l", "l", "e", "r">>, <<>>}

\* orientations handed to the styler: the five, a value outside them, null
StyleOrientations == Orientations \cup {"far-right", "None"}

\* keys left out of the dict handed to the styler
StyleMissing ==
    {{}, {"political_orientation"}, {"credibility_score"}, {"position"},
     {"first_name", "last_name"}}

Without(d, keys) == [k \in DOMAIN d \ keys |-> d[k]]

\* the dicts handed to the styler: every score from -1 to 101 with every
\* orientation, and the scores around the tier limits with every name,
\* position, orientation and set of missing keys
StyleEntities ==
    LET entity(n, p, o, s) ==
            [name |-> Strip(n.first_name \o <<" ">> \o n.last_name),
             first_name |-> n.first_name, last_name |-> n.last_name,
             position |-> p, political_orientation |-> o, credibility_score |-> s]
        sweep == {entity([first_name |-> <<"M", "a", "n", "u", "e", "l">>, last_name |-> <<"V", "a", "l", "l", "s">>],
                         <<"P", "r", "e", "m", "i", "e", "r", " ", "m", "i", "n", "i", "s", "t", "r", "e">>, o, s) :
                     o \in StyleOrientations, s \in (-1)..101}
        mixed == {Without(entity(n, p, o, s), m) :
                     n \in StyleNames, p \in StylePositions, o \in StyleOrientations,
                     s \in {59, 60, 79, 80}, m \in StyleMissing}
    IN  sweep \cup mixed

\* a call of _assign_visual_elements
AssignVisualElements ==
    /\ pc = "style"
    /\ styled' = _assign_visual_elements(to_style)
    /\ pc' = "done"
    /\ UNCHANGED <<againVars, to_style, assetVars, env, classVars, fetchVars, cleaned_politicians,
                   kept, insertVars, errlog, result, raised>>

\* _assign_visual_elements alone, on every dict of StyleEntities
InitStyle ==
    /\ pc = "style"
    /\ to_style \in StyleEntities
    /\ styled = <<>>
    /\ IdleEnv /\ IdleClass /\ IdleFetch /\ IdleDedup /\ IdleInsert /\ IdleOut /\ IdleAssets
    /\ IdleAgain

NextStyle == AssignVisualElements

SpecStyle == InitStyle /\ [][NextStyle]_vars

-----------------------------------------------------------------------------
(* Properties of the styler *)

Has(d, key) == key \in DOMAIN d

\* C12: for every score s the styler sets the high tier, with its badge and
\* label, exactly when s >= 80, the medium tier exactly when 60 <= s < 80 and
\* the low tier exactly when s < 60: one tier per score, fixed by the score.
C12_TierFollowsScore ==
    (pc = "done" /\ Has(to_style, "credibility_score")) =>
        LET s == to_style.credibility_score
            high == /\ styled.cartoon_expression = "confident"
                    /\ styled.credibility_badge = "trophy"
                    /\ styled.credibility_label = "Il assure lauiss !"
            medium == /\ styled.cartoon_expression = "neutral"
                      /\ styled.credibility_badge = "scales"
                      /\ styled.credibility_label = "Moyen lauiss..."
            low == /\ styled.cartoon_expression = "skeptical"
                   /\ styled.credibility_badge = "warning"
                   /\ styled.credibility_label = "Louche lauiss !"
        IN  /\ high <=> s >= 80
            /\ medium <=> (60 <= s /\ s < 80)
            /\ low <=> s < 60
            /\ styled.credibility_score = s

\* the score 80 styled high
C12_Witness ==
    /\ pc = "done"
    /\ Has(to_style, "credibility_score") /\ to_style.credibility_score = 80
    /\ styled.cartoon_expression = "confident" /\ styled.credibility_badge = "trophy"

\* the entries of role_styles whose keyword, lowercased, occurs in the
\* lowercased position
MatchingRoles(position) ==
    {k \in 1..Len(role_styles) :
        \E at \in 1..Len(position) :
            /\ at + Len(role_styles[k].role) - 1 <= Len(position)
            /\ \A m \in 1..Len(role_styles[k].role) :
                   LowerChar(position[at + m - 1]) = LowerChar(role_styles[k].role[m])}

\* C13: the styler applies the highlight and crown of the first entry of
\* role_styles, in the order of the table, whose keyword occurs in the
\* position, capitals aside; with no such entry it sets highlight to false
\* and the neutral crown.
C13_FirstRoleInTableOrderWins ==
    (pc = "done" /\ Has(to_style, "position")) =>
        IF MatchingRoles(to_style.position) = {}
        THEN styled.highlight = FALSE /\ styled.crown = "person"
        ELSE \E k \in MatchingRoles(to_style.position) :
                 /\ \A m \in MatchingRoles(to_style.position) : k <= m
                 /\ styled.highlight = role_styles[k].style.highlight
                 /\ styled.crown = role_styles[k].style.crown

\* 'Maire et depute': Maire stands first in the position, Depute first in the table
C13_Witness ==
    /\ pc = "done"
    /\ Has(to_style, "position") /\ to_style.position = <<"M", "a", "i", "r", "e", " ", "e", "t", " ", "d", "e'", "p", "u", "t", "e'">>
    /\ styled.crown = "ballot" /\ styled.highlight = FALSE

\* C14: the five orientations have five colours, no two the same, each
\* entity gets the colour of its orientation, and an entity whose orientation
\* is missing or is none of the five gets the colour of center.
C14_ColorPerOrientation ==
    /\ \A a, b \in Orientations : a # b => orientation_colors(a) # orientation_colors(b)
    /\ pc = "done" =>
           IF Has(to_style, "political_orientation")
                  /\ to_style.political_orientation \in Orientations
           THEN \E o \in Orientations :
                    /\ o = to_style.political_orientation
                    /\ styled.card_color = orientation_colors(o)
           ELSE styled.card_color = orientation_colors("center")

\* an entity without orientation and one with an orientation outside the five
C14_Witness ==
    /\ pc = "done"
    /\ styled.card_color = "#1E3A8A"
    /\ \/ ~Has(to_style, "political_orientation")
       \/ to_style.political_orientation = "far-right"

-----------------------------------------------------------------------------
(* update-database-with-assets.py: the asset post-pass *)

\* rows of the table when the post-pass starts
MaxRows == 2

\* store calls of the post-pass that fail
MaxAssetFail == 1

\* the dict politicians_assets, in insertion order
politicians_assets == <<
    [name |-> <<"e'", "l", "i", "s", "a", "b", "e", "t", "h", " ", "b", "o", "r", "n", "e">>, avatar_url |-> "/assets/politicians/borne.png",
     has_animation |-> FALSE],
    [name |-> <<"s", "e'", "b", "a", "s", "t", "i", "e", "n", " ", "l", "e", "c", "o", "r", "n", "u">>, avatar_url |-> "/assets/politicians/lecornu.png",
     animation_url |-> "/assets/animations/lecornu.mp4", has_animation |-> TRUE],
    [name |-> <<"e'", "r", "i", "c", " ", "l", "o", "m", "b", "a", "r", "d">>, avatar_url |-> "/assets/politicians/lombart.png",
     has_animation |-> FALSE],
    [name |-> <<"m", "a", "r", "i", "n", "e", " ", "l", "e", " ", "p", "e", "n">>, avatar_url |-> "/assets/politicians/lepen.jpeg",
     animation_url |-> "/assets/animations/lepen.mp4", has_animation |-> TRUE] >>

\* name ILIKE '%politician_name%': the name contains it, capitals aside
ilike(name, politician_name) == Contains(Lower(name), Lower(politician_name))

\* select('*').ilike('name', ...): the matching rows in the order the store
\* scans the table (the query has no ORDER BY)
SelectIlike(table, politician_name) ==
    LET matches(r) == ilike(r.name, politician_name)
    IN  SelectSeq(table, matches)

\* update_data of one entry of politicians_assets
update_data(assets) ==
    IF Get(assets, "has_animation", FALSE)
    THEN [avatar_url |-> assets.avatar_url,
          animation_url |-> Get(assets, "animation_url", "None")]
    ELSE [avatar_url |-> assets.avatar_url]

\* update(update_data).eq('id', politician_id) on the rows of the table
UpdateEq(table, data, politician_id) ==
    [k \in 1..Len(table) |->
        IF table[k].id = politician_id THEN data @@ table[k] ELSE table[k]]

\* the table with the rows of that id moved behind the others: the order in
\* which a store that writes a new row version scans the table afterwards
MovedLast(table, politician_id) ==
    LET other(r) == r.id # politician_id
        same(r) == r.id = politician_id
    IN  SelectSeq(table, other) \o SelectSeq(table, same)

\* the lookup of the current name found no row: "Politicien non trouve"
AssetNotFound ==
    /\ pc = "assets"
    /\ asset_at <= Len(politicians_assets)
    /\ SelectIlike(rows, politicians_assets[asset_at].name) = <<>>
    /\ asset_at' = asset_at + 1
    /\ UNCHANGED <<againVars, styleVars, rows, updated_count, pass, after_first, pc, env, classVars,
                   fetchVars, cleaned_politicians, kept, insertVars, errlog, result, raised>>

\* the table after the update of response.data[0] for entry k of politicians_assets
UpdateFirstMatch(table, k) ==
    LET assets == politicians_assets[k]
        politician_row == SelectIlike(table, assets.name)[1]
    IN  UpdateEq(table, update_data(assets), politician_row.id)

AssetUpdated == UpdateFirstMatch(rows, asset_at)

\* the lookup found rows and the update of the first one went through, the
\* store keeping the row in its place
AssetUpdateInPlace ==
    /\ pc = "assets"
    /\ asset_at <= Len(politicians_assets)
    /\ SelectIlike(rows, politicians_assets[asset_at].name) # <<>>
    /\ rows' = AssetUpdated
    /\ updated_count' = updated_count + 1
    /\ asset_at' = asset_at + 1
    /\ UNCHANGED <<againVars, styleVars, pass, after_first, pc, env, classVars, fetchVars,
                   cleaned_politicians, kept, insertVars, errlog, result, raised>>

\* the same, the store scanning the updated row after the others from now on
AssetUpdateMoved ==
    /\ pc = "assets"
    /\ asset_at <= Len(politicians_assets)
    /\ SelectIlike(rows, politicians_assets[asset_at].name) # <<>>
    /\ rows' = MovedLast(AssetUpdated,
                         SelectIlike(rows, politicians_assets[asset_at].name)[1].id)
    /\ rows' # AssetUpdated
    /\ updated_count' = updated_count + 1
    /\ asset_at' = asset_at + 1
    /\ UNCHANGED <<againVars, styleVars, pass, after_first, pc, env, classVars, fetchVars,
                   cleaned_politicians, kept, insertVars, errlog, result, raised>>

\* the select or the update raised, or the update returned no row: the
\* except clause or the "Probleme mise a jour" branch, the table left as it was
AssetStoreFail ==
    /\ pc = "assets"
    /\ asset_at <= Len(politicians_assets)
    /\ Len(errlog) < MaxAssetFail
    /\ errlog' = Append(errlog, [kind |-> "asset", who |-> politicians_assets[asset_at].name])
    /\ asset_at' = asset_at + 1
    /\ UNCHANGED <<againVars, styleVars, rows, updated_count, pass, after_first, pc, env, classVars,
                   fetchVars, cleaned_politicians, kept, insertVars, result, raised>>

\* `return updated_count` of the first call, followed by the second call
AssetsReturnFirst ==
    /\ pc = "assets"
    /\ asset_at > Len(politicians_assets)
    /\ pass = 1
    /\ after_first' = rows
    /\ pass' = 2
    /\ asset_at' = 1
    /\ updated_count' = 0
    /\ result' = updated_count
    /\ UNCHANGED <<againVars, styleVars, rows, pc, env, classVars, fetchVars, cleaned_politicians,
                   kept, insertVars, errlog, raised>>

\* `return updated_count` of the second call
AssetsReturnSecond ==
    /\ pc = "assets"
    /\ asset_at > Len(politicians_assets)
    /\ pass = 2
    /\ result' = updated_count
    /\ pc' = "done"
    /\ UNCHANGED <<againVars, styleVars, assetVars, env, classVars, fetchVars, cleaned_politicians,
                   kept, insertVars, errlog, raised>>

\* names of the rows of the table: names of politicians_assets in other
\* capitals, a name that contains one of them, a name outside them
RowNames ==
    {<<"E'", "l", "i", "s", "a", "b", "e", "t", "h", " ", "B", "o", "r", "n", "e">>, <<"M", "a", "r", "i", "n", "e", " ", "L", "e", " ", "P", "e", "n">>, <<"M", "A", "R", "I", "N", "E", " ", "L", "E", " ", "P", "E", "N">>, <<"J", "e", "a", "n", "-", "M", "a", "r", "i", "n", "e", " ", "L", "e", " ", "P", "e", "n">>,
     <<"S", "e'", "b", "a", "s", "t", "i", "e", "n", " ", "L", "e", "c", "o", "r", "n", "u">>, <<"M", "a", "n", "u", "e", "l", " ", "V", "a", "l", "l", "s">>}

\* what the import left in the two columns: the styler's avatar or null, no animation
RowAvatars == {"None", "/images/lepen.jpeg"}

\* the tables the post-pass starts on: at most MaxRows rows, ids in scan order
AssetTables ==
    LET cell == [name : RowNames, avatar_url : RowAvatars, animation_url : {"None"}]
        lists == SeqsUpTo(cell, MaxRows)
    IN  {[k \in 1..Len(l) |-> [id |-> k] @@ l[k]] : l \in lists}

\* update_politicians_assets called twice in succession on one table
InitAssets ==
    /\ pc = "assets"
    /\ rows \in AssetTables
    /\ asset_at = 1 /\ updated_count = 0 /\ pass = 1 /\ after_first = <<>>
    /\ IdleEnv /\ IdleClass /\ IdleFetch /\ IdleDedup /\ IdleInsert /\ IdleOut /\ IdleStyle
    /\ IdleAgain

NextAssets ==
    \/ AssetNotFound
    \/ AssetUpdateInPlace
    \/ AssetUpdateMoved
    \/ AssetStoreFail
    \/ AssetsReturnFirst
    \/ AssetsReturnSecond

SpecAssets == InitAssets /\ [][NextAssets]_vars

-----------------------------------------------------------------------------
(* Properties of the asset post-pass *)

\* C16 as stated: with no store call failing, every row has the avatar_url
\* and animation_url after two successive calls of update_politicians_assets
\* that it had after the first.
C16_PostPassIdempotent ==
    (pc = "done" /\ errlog = <<>>) =>
        \A a \in 1..Len(rows) : \A b \in 1..Len(after_first) :
            rows[a].id = after_first[b].id =>
                /\ rows[a].avatar_url = after_first[b].avatar_url
                /\ rows[a].animation_url = after_first[b].animation_url

-----------------------------------------------------------------------------
(* The styler and the asset table *)

\* the entries of politicians_assets whose key is the full name
AssetEntries(full_name) ==
    {k \in 1..Len(politicians_assets) : politicians_assets[k].name = full_name}

\* C15 as stated: the styler sets avatar_url and animation_url from the entry
\* of the asset table whose key is the lowercased, trimmed full name of the
\* entity; with no such entry both are null.  (A key the styler leaves out
\* of the dict counts as null here, and any avatar path counts as the
\* entry's avatar.)
C15_StylerLinksAssetsByExactName ==
    pc = "done" =>
        LET full_name == Strip(Lower(Get(to_style, "first_name", <<>>) \o <<" ">>
                                       \o Get(to_style, "last_name", <<>>)))
        IN  IF AssetEntries(full_name) = {}
            THEN /\ Get(styled, "avatar_url", "None") = "None"
                 /\ Get(styled, "animation_url", "None") = "None"
            ELSE \E k \in AssetEntries(full_name) :
                     /\ Get(styled, "avatar_url", "None") # "None"
                     /\ Get(styled, "animation_url", "None")
                            = Get(politicians_assets[k], "animation_url", "None")

-----------------------------------------------------------------------------
(* Properties of the entities the sources emit *)

\* C17: every entity a source adapter has emitted, and every entity handed
\* to a persistence call, has a credibility_score from 0 to 100.  (Stated on
\* the emitted list in every state and on each persistence call as it is
\* made.)
C17_ScoresWithinRange ==
    /\ \A k \in 1..Len(all_politicians) :
           /\ all_politicians[k].credibility_score >= 0
           /\ all_politicians[k].credibility_score <= 100
    /\ calls # <<>> =>
           \A p \in calls[Len(calls)].first..calls[Len(calls)].last :
               /\ politicians[p].credibility_score >= 0
               /\ politicians[p].credibility_score <= 100

\* a finished run in which a senator and the ministers were emitted and inserted
C17_Witness ==
    /\ pc = "done" /\ result = Len(politicians)
    /\ \E p \in 1..Len(politicians) :
           /\ politicians[p].position = <<"S", "e'", "n", "a", "t", "e", "u", "r">>
           /\ politicians[p].credibility_score = 80
    /\ \E p \in 1..Len(politicians) : politicians[p].credibility_score = 95

\* a raw row of the senators' CSV in which every expected key holds text
SenatorRowComplete(row) ==
    \A v \in {row.Prenom, row.NomUsage, row.Nom, row.Groupe, row.Departement} :
        IsStr(v) /\ v # <<>>

\* a raw row of the mayors' CSV in which every expected key holds text
MayorRowComplete(row) ==
    \A v \in {row.Prenom, row.Nom, row.Nuance, row.Commune} : IsStr(v) /\ v # <<>>

\* entity e, as normalization leaves it, reproduces the raw values trimmed,
\* and its name is the trimmed concatenation of its own first and last name
RoundTrip(e, raw_first, raw_last, raw_party, raw_position, raw_constituency) ==
    /\ e.first_name = Strip(raw_first)
    /\ e.last_name = Strip(raw_last)
    /\ e.party = Strip(raw_party)
    /\ e.position = Strip(raw_position)
    /\ e.constituency = Strip(raw_constituency)
    /\ e.name = Strip(e.first_name \o <<" ">> \o e.last_name)

\* C18: when _clean_and_deduplicate has returned, the entity made from a raw
\* senator or mayor row in which every expected key is present has
\* first_name, last_name, party, position and constituency equal to the raw
\* values with leading and trailing whitespace removed, and its name is the
\* trimmed concatenation of first_name, a space and last_name.
C18_NormalizationRoundTrip ==
    DedupJustReturned =>
        \A q \in 1..Len(requests) :
            LET df == requests[q].data
                d == fetched["deputes"]
                s == fetched["senateurs"]
                m == fetched["ministres"]
                y == fetched["maires"]
            IN  /\ (requests[q].url = "ODSEN_GENERAL.csv" /\ requests[q].status = "ok") =>
                       LET active == SelectSeq(df, SenatorActive)
                       IN  s = Len(active) =>
                               \A k \in 1..s :
                                   SenatorRowComplete(active[k]) =>
                                       RoundTrip(all_politicians[d + k],
                                                 active[k].Prenom, active[k].NomUsage,
                                                 active[k].Groupe, <<"S", "e'", "n", "a", "t", "e", "u", "r">>,
                                                 active[k].Departement)
                /\ (requests[q].url = "maires.csv" /\ requests[q].status = "ok") =>
                       LET selected == SelectSeq(df, MayorSelected)
                       IN  y = Len(selected) =>
                               \A k \in 1..y :
                                   MayorRowComplete(selected[k]) =>
                                       RoundTrip(all_politicians[d + s + m + k],
                                                 selected[k].Prenom, selected[k].Nom,
                                                 selected[k].Nuance,
                                                 <<"M", "a", "i", "r", "e", " ", "d", "e", " ">> \o selected[k].Commune,
                                                 selected[k].Commune)

-----------------------------------------------------------------------------
(* The order of the persistence calls *)

\* the calls from c on are the individual inserts of positions lo..hi, one
\* per position and in order, as far as the calls made so far go
SinglesFollow(c, lo, hi) ==
    \A m \in 1..(hi - lo + 1) :
        c + m <= Len(calls) =>
            calls[c + m].kind = "single" /\ calls[c + m].first = lo + m - 1

\* C19: in every state of insert_politicians_batch: no batch has two bulk
\* inserts (a failed bulk insert is not retried); an individual insert is
\* only ever made for a record of a batch whose bulk insert failed, at the
\* place its position gives it right after that bulk call, never for a
\* record of a batch whose bulk insert succeeded; once the loop has left a
\* failed batch, every record of the batch has had its individual insert;
\* and the function is in its fallback loop exactly while the last bulk
\* insert has failed and records of its batch are still to be inserted.
C19_OneBulkPerBatchFallbackOnlyAfterFailure ==
    /\ \A a, b \in 1..Len(calls) :
           (a # b /\ calls[a].kind = "bulk" /\ calls[b].kind = "bulk") =>
               calls[a].first # calls[b].first
    /\ \A c \in 1..Len(calls) :
           calls[c].kind = "single" =>
               /\ \E b \in 1..(c - 1) :
                      /\ calls[b].kind = "bulk" /\ ~calls[b].ok
                      /\ calls[b].first <= calls[c].first
                      /\ calls[c].first <= calls[b].last
                      /\ c = b + (calls[c].first - calls[b].first) + 1
                      /\ SinglesFollow(b, calls[b].first, calls[c].first)
               /\ \A b \in 1..Len(calls) :
                      (calls[b].kind = "bulk" /\ calls[b].ok) =>
                          ~(calls[b].first <= calls[c].first /\ calls[c].first <= calls[b].last)
    /\ \A b \in 1..Len(calls) :
           (calls[b].kind = "bulk" /\ ~calls[b].ok) =>
               /\ SinglesFollow(b, calls[b].first, calls[b].last)
               /\ (pc # "fallback" \/ \E c \in (b + 1)..Len(calls) : calls[c].kind = "bulk") =>
                      b + (calls[b].last - calls[b].first + 1) <= Len(calls)
    /\ pc = "fallback" <=>
           \E b \in 1..Len(calls) :
               /\ calls[b].kind = "bulk" /\ ~calls[b].ok
               /\ Len(calls) < b + (calls[b].last - calls[b].first + 1)
    /\ pc = "fallback" =>
           \E b \in 1..Len(calls) :
               /\ calls[b].kind = "bulk" /\ ~calls[b].ok
               /\ Len(calls) = b + j - 1

\* a finished run of two batches of two: the first went through in bulk and
\* had no individual insert, the second failed in bulk and had its two records
\* inserted one by one
C19_Witness ==
    /\ pc = "done"
    /\ batch_size = 2 /\ Len(politicians) = 4
    /\ Len(calls) = 4
    /\ calls[1].kind = "bulk" /\ calls[1].ok
    /\ calls[2].kind = "bulk" /\ ~calls[2].ok
    /\ calls[3].kind = "single" /\ calls[3].first = 3
    /\ calls[4].kind = "single" /\ calls[4].first = 4

IsBulk(c) == c.kind = "bulk"

\* the bulk calls made so far, in submission order: one per batch
Batches == SelectSeq(calls, IsBulk)

\* the index in `calls` of the n-th bulk call
RECURSIVE BulkIndex(_, _)
BulkIndex(n, from) ==
    IF calls[from].kind = "bulk"
    THEN (IF n = 1 THEN from ELSE BulkIndex(n - 1, from + 1))
    ELSE BulkIndex(n, from + 1)

\* C20: in every state of insert_politicians_batch, for every batch_size of
\* 1 or more and every input list: the batches submitted so far are
\* consecutive slices of the input starting at its first record, each of
\* batch_size records except that the one ending the list may be shorter;
\* when the function has returned they cover the whole list, so that
\* concatenated in submission order they are the input list; and a batch is
\* submitted right after the bulk insert of the batch before it when that
\* went through, and otherwise right after the individual insert of the last
\* record of the batch before it.
C20_BatchesAreConsecutiveSlicesInOrder ==
    /\ batch_size >= 1
    /\ \A n \in 1..Len(Batches) :
           /\ Batches[n].first = (n - 1) * batch_size + 1
           /\ Batches[n].first <= Batches[n].last
           /\ Batches[n].last <= Len(politicians)
           /\ \/ Batches[n].last - Batches[n].first + 1 = batch_size
              \/ /\ Batches[n].last = Len(politicians)
                 /\ Batches[n].last - Batches[n].first + 1 < batch_size
           /\ n < Len(Batches) => Batches[n + 1].first = Batches[n].last + 1
    /\ pc = "done" =>
           /\ [k \in 1..Len(politicians) |->
                  politicians[Batches[((k - 1) \div batch_size) + 1].first
                              + ((k - 1) % batch_size)]] = politicians
           /\ politicians # <<>> => Batches[Len(Batches)].last = Len(politicians)
           /\ politicians = <<>> => calls = <<>>
    /\ \A n \in 1..(Len(Batches) - 1) :
           LET b == BulkIndex(n, 1)
               c == BulkIndex(n + 1, 1)
           IN  IF calls[b].ok
               THEN c = b + 1
               ELSE /\ c = b + (calls[b].last - calls[b].first + 1) + 1
                    /\ calls[c - 1].kind = "single"
                    /\ calls[c - 1].first = calls[b].last

\* a finished run on four records with batch_size 3: the first batch, of
\* three, failed in bulk and went through its fallback before the second
\* batch, of the one record left, was submitted
C20_Witness ==
    /\ pc = "done"
    /\ batch_size = 3 /\ Len(politicians) = 4
    /\ Len(Batches) = 2
    /\ Batches[1].first = 1 /\ Batches[1].last = 3 /\ ~Batches[1].ok
    /\ Batches[2].first = 4 /\ Batches[2].last = 4
    /\ BulkIndex(2, 1) = 5

-----------------------------------------------------------------------------
(* Properties of _clean_and_deduplicate checked alone *)

\* C21: when _clean_and_deduplicate has returned, no entity that fails the
\* validity tests (empty name, empty position or key "_") is in the output,
\* and such an entity does not take its key: a valid entity is in the output
\* whenever every entity before it with the same key is invalid.
C21_InvalidEntityLeavesKeyFree ==
    (pc = "done" /\ raised = "none") =>
        \A b \in 1..Len(all_politicians) :
            /\ ~ValidEntity(all_politicians[b]) => b \notin Range(kept)
            /\ ( /\ ValidEntity(all_politicians[b])
                 /\ \A a \in 1..(b - 1) :
                        UnderscoredKey(all_politicians[a]) = UnderscoredKey(all_politicians[b])
                            => ~ValidEntity(all_politicians[a]) )
                   => b \in Range(kept)

\* an entity without position, then a valid entity of the same first and
\* last name: the second alone is in the output
C21_Witness ==
    /\ pc = "done" /\ raised = "none"
    /\ Len(all_politicians) = 2 /\ kept = <<2>>
    /\ all_politicians[1].position = <<>> /\ all_politicians[1].name # <<>>
    /\ UnderscoredKey(all_politicians[1]) = UnderscoredKey(all_politicians[2])
    /\ UnderscoredKey(all_politicians[1]) # <<"_">>
    /\ cleaned_politicians = <<all_politicians[2]>>

-----------------------------------------------------------------------------
(* Properties of the stages an entity goes through *)

\* the keys the styler sets that the persisted entity is said to carry
StyledKeys == {"card_color", "credibility_badge", "credibility_label", "highlight", "crown"}

\* C22: every entity, whatever its source, has been through the styler when
\* it is handed to the deduplicator, and carries card_color, credibility
\* badge and label, highlight and crown when it reaches the persister.
\* (Stated on the list as the deduplicator returns it and on each
\* persistence call as it is made.)
C22_EveryEntityStyledBeforeDedup ==
    /\ DedupJustReturned =>
           \A k \in 1..Len(all_politicians) : StyledKeys \subseteq DOMAIN all_politicians[k]
    /\ calls # <<>> =>
           \A p \in calls[Len(calls)].first..calls[Len(calls)].last :
               StyledKeys \subseteq DOMAIN politicians[p]

\* C23: a raw record that cannot be normalized is dropped without being
\* fatal: in a run with a valid configuration nothing is raised, the
\* well-formed rows served with it still become entities of their source,
\* and every entity of the dedup output is handed to the persister.
C23_MalformedRecordDroppedNotFatal ==
    (~ConfigMissing /\ pc = "done") =>
        /\ raised = "none"
        /\ result >= 0
        /\ \A q \in 1..Len(requests) :
               /\ (requests[q].url = "ODSEN_GENERAL.csv" /\ requests[q].status = "ok") =>
                      fetched["senateurs"]
                          >= Len(SelectSeq(SelectSeq(requests[q].data, SenatorActive),
                                           SenatorRowComplete))
               /\ (requests[q].url = "maires.csv" /\ requests[q].status = "ok") =>
                      fetched["maires"]
                          >= Len(SelectSeq(SelectSeq(requests[q].data, MayorRowComplete),
                                           MayorSelected))
        /\ \A p \in 1..Len(cleaned_politicians) :
               \E c \in 1..Len(calls) : calls[c].first <= p /\ p <= calls[c].last

\* entity `out` is entity `in` with name, first_name, last_name and party
\* rid of their leading and trailing whitespace and nothing else changed
StrippedOnly(in, out) ==
    /\ DOMAIN out = DOMAIN in
    /\ out.name = Strip(in.name)
    /\ out.first_name = Strip(in.first_name)
    /\ out.last_name = Strip(in.last_name)
    /\ out.party = Strip(in.party)
    /\ \A f \in DOMAIN in \ {"name", "first_name", "last_name", "party"} : out[f] = in[f]

\* C24 as stated: a call of _clean_and_deduplicate that returns leaves the
\* entities it received as they were, and every entity of its output is
\* field for field the entity that was handed in.
C24_DedupLeavesEntitiesUnchanged ==
    [][(pc = "clean" /\ raised' = "none") =>
          /\ all_politicians' = all_politicians
          /\ \A n \in 1..Len(kept') : cleaned_politicians'[n] = all_politicians[kept'[n]]]_vars

\* C24 as amended: a call of _clean_and_deduplicate that returns has
\* stripped name, first_name, last_name and party of every entity it
\* received, in place, and changed no other field; every entity of its
\* output is the entity handed in with these four fields stripped.
C24_DedupStripsFourFieldsInPlace ==
    [][(pc = "clean" /\ raised' = "none") =>
          /\ Len(all_politicians') = Len(all_politicians)
          /\ \A k \in 1..Len(all_politicians) :
                 StrippedOnly(all_politicians[k], all_politicians'[k])
          /\ \A n \in 1..Len(kept') :
                 /\ kept'[n] \in 1..Len(all_politicians)
                 /\ StrippedOnly(all_politicians[kept'[n]], cleaned_politicians'[n])]_vars

\* a returned call whose output holds an entity that came in as first name
\* 'A ' and party ' LR ' (the only spellings of the inputs that give 'A', 'LR')
C24_Witness ==
    /\ pc = "done" /\ raised = "none"
    /\ \E n \in 1..Len(cleaned_politicians) :
           /\ cleaned_politicians[n].first_name = <<"A">>
           /\ cleaned_politicians[n].party = <<"L", "R">>
           /\ all_politicians[kept[n]] = cleaned_politicians[n]

\* the identity fields and the fields the styler reads
StylerInputs == {"first_name", "last_name", "name", "party", "position",
                 "credibility_score", "political_orientation"}

\* C25: when _assign_visual_elements has returned, each of first_name,
\* last_name, name, party, position, credibility_score and
\* political_orientation is in the entity exactly if it was before the call,
\* with the value it had; and every key the call has added or changed is one
\* of the derived keys.
C25_StylerWritesDerivedFieldsOnly ==
    pc = "done" =>
        /\ \A f \in StylerInputs :
               /\ Has(styled, f) <=> Has(to_style, f)
               /\ Has(to_style, f) => styled[f] = to_style[f]
        /\ \A f \in DOMAIN styled :
               (~Has(to_style, f) \/ styled[f] # to_style[f]) =>
                   f \in {"avatar_url", "card_color", "cartoon_expression",
                          "credibility_badge", "credibility_label", "highlight", "crown"}
        /\ DOMAIN to_style \subseteq DOMAIN styled

\* a styled entity that came without a score: the default was used for the
\* tier and not written into the entity
C25_Witness ==
    /\ pc = "done"
    /\ ~Has(to_style, "credibility_score") /\ ~Has(styled, "credibility_score")
    /\ styled.credibility_badge = "trophy"
    /\ Has(to_style, "first_name") /\ styled.first_name = to_style.first_name

-----------------------------------------------------------------------------
(* Termination of insert_politicians_batch *)

\* every record of the input has been in a bulk call, the last batch included
AllBatchesProcessed ==
    \A k \in 1..Len(politicians) :
        \E c \in 1..Len(calls) :
            calls[c].kind = "bulk" /\ calls[c].first <= k /\ k <= calls[c].last

\* what is left to do: the records from the current batch on, counted twice
\* (bulk call and fallback), less the progress made inside the current batch
StepsLeft ==
    IF pc = "done" THEN 0
    ELSE IF pc = "batch" THEN 2 * (IF i < Len(politicians) THEN Len(politicians) - i ELSE 0) + 1
    ELSE 2 * (Len(politicians) - i) - j + 1

\* C26: whatever the input and whatever persistence calls fail, as long as
\* each call returns, insert_politicians_batch returns, and it has then
\* submitted every batch up to the last one; every step it takes, failed
\* calls included, brings it nearer to the end (it never loops).
C26_InsertAlwaysReturns ==
    /\ <>(pc = "done" /\ AllBatchesProcessed /\ result = total_inserted)
    /\ [][StepsLeft' < StepsLeft]_vars

\* a returned call whose every persistence call failed: two bulk inserts
\* and the individual inserts of all four records
C26_Witness ==
    /\ pc = "done"
    /\ Len(politicians) = 4 /\ batch_size = 2
    /\ Len(calls) = 6
    /\ \A c \in 1..Len(calls) : ~calls[c].ok
    /\ result = 0
    /\ AllBatchesProcessed

-----------------------------------------------------------------------------
(* The store after insert_politicians_batch *)

\* C27: a failed insert storing nothing, when insert_politicians_batch has
\* returned the count it returns is the number of records the store holds
\* from the call, no record is stored twice, every stored record is one that
\* a successful call carried, and no record reported as failed is stored.
C27_StoreHoldsExactlyTheCounted ==
    pc = "done" =>
        /\ result = Len(store)
        /\ \A a, b \in 1..Len(store) : a # b => store[a] # store[b]
        /\ \A s \in 1..Len(store) :
               /\ store[s] \in 1..Len(politicians)
               /\ InsertedAt(store[s]) = 1
               /\ FailedAt(store[s]) = 0
        /\ \A k \in 1..Len(politicians) : InsertedAt(k) = 1 => k \in Range(store)

\* two batches of two: the first failed in bulk, its first record went
\* through alone and its second was rejected; the second went through in bulk
C27_Witness ==
    /\ pc = "done"
    /\ Len(politicians) = 4 /\ batch_size = 2
    /\ store = <<1, 3, 4>>
    /\ result = 3
    /\ FailedAt(2) = 1

-----------------------------------------------------------------------------
(* The orientation of the persisted entities *)

\* C28 as stated: every entity handed to a persistence call has one of the
\* five orientations, and it is the one _determine_orientation gives for the
\* entity's party label.
C28_OrientationIsClassifiersResult ==
    calls # <<>> =>
        \A p \in calls[Len(calls)].first..calls[Len(calls)].last :
            /\ politicians[p].political_orientation \in Orientations
            /\ politicians[p].political_orientation
                   = _determine_orientation(politicians[p].party)

\* C28 as amended: every entity handed to a persistence call has one of the
\* five orientations; for a deputy, a senator or a mayor it is the one
\* _determine_orientation gives for the entity's party label, for a
\* minister it is the one written in the literal list.
C28_OrientationClassifiedOrLiteral ==
    calls # <<>> =>
        \A p \in calls[Len(calls)].first..calls[Len(calls)].last :
            LET at == kept[p]
                before == fetched["deputes"] + fetched["senateurs"]
            IN  /\ politicians[p].political_orientation \in Orientations
                /\ IF before < at /\ at <= before + fetched["ministres"]
                   THEN politicians[p].political_orientation
                            = ministres[at - before].political_orientation
                   ELSE politicians[p].political_orientation
                            = _determine_orientation(politicians[p].party)

\* a finished run that persisted a deputy the classifier put center-left and
\* a minister of Renaissance whose literal orientation is center-right
C28_Witness ==
    /\ pc = "done" /\ result = Len(politicians)
    /\ \E p \in 1..Len(politicians) :
           /\ politicians[p].position = <<"D", "e'", "p", "u", "t", "e'">>
           /\ politicians[p].party = <<"P", "a", "r", "t", "i", " ", "s", "o", "c", "i", "a", "l", "i", "s", "t", "e">>
           /\ politicians[p].political_orientation = "center-left"
    /\ \E p \in 1..Len(politicians) :
           /\ politicians[p].name = <<"G", "e'", "r", "a", "l", "d", " ", "D", "a", "r", "m", "a", "n", "i", "n">>
           /\ politicians[p].party = <<"R", "e", "n", "a", "i", "s", "s", "a", "n", "c", "e">>
           /\ politicians[p].political_orientation = "center-right"

-----------------------------------------------------------------------------
(* _clean_and_deduplicate applied to its own output *)

\* C29: _clean_and_deduplicate called on the list it has returned raises
\* nothing, returns the same entities in the same order, drops none and
\* changes no field of any.
C29_DedupIdempotent ==
    pc = "again" =>
        /\ again.raised = "none"
        /\ again.cleaned = cleaned_politicians
        /\ again.kept = [n \in 1..Len(cleaned_politicians) |-> n]
        /\ again.list = cleaned_politicians

\* a second call on an output the first call had to work for: it had
\* dropped a duplicate and stripped the first name 'A ' of the entity it kept
C29_Witness ==
    /\ pc = "again"
    /\ Len(all_politicians) = 2 /\ kept = <<1>>
    /\ ValidEntity(all_politicians[2])
    /\ cleaned_politicians[1].first_name = <<"A">>
    /\ again.cleaned = cleaned_politicians

-----------------------------------------------------------------------------
(* The endpoints of fetch_deputes *)

IsDeputesRequest(r) == \E u \in 1..Len(urls_to_try) : urls_to_try[u] = r.url

\* the requests fetch_deputes has made, in order
DeputesRequests == SelectSeq(requests, IsDeputesRequest)

\* the endpoints are requested in the listed order, each after the failure of
\* the one before, none after one that answered, and fetch_deputes returns
\* after an answer or after the failure of the last endpoint
EndpointsInOrder ==
    /\ Len(DeputesRequests) <= Len(urls_to_try)
    /\ \A q \in 1..Len(DeputesRequests) :
           /\ DeputesRequests[q] = requests[q]
           /\ DeputesRequests[q].url = urls_to_try[q]
           /\ q < Len(DeputesRequests) => DeputesRequests[q].status = "error"
    /\ fetched["deputes"] >= 0 <=>
           /\ DeputesRequests # <<>>
           /\ \/ DeputesRequests[Len(DeputesRequests)].status = "ok"
              \/ Len(DeputesRequests) = Len(urls_to_try)

DeputesAnswered ==
    DeputesRequests # <<>> /\ DeputesRequests[Len(DeputesRequests)].status = "ok"

\* C30 as stated: the endpoints are requested in order up to the first that
\* answers, and fetch_deputes returns an empty list only when every endpoint
\* has failed.
C30_EmptyOnlyWhenEveryEndpointFailed ==
    /\ EndpointsInOrder
    /\ fetched["deputes"] = 0 =>
           /\ Len(DeputesRequests) = Len(urls_to_try)
           /\ \A q \in 1..Len(DeputesRequests) : DeputesRequests[q].status = "error"

\* C30 as amended: the endpoints are requested in order up to the first that
\* answers; fetch_deputes returns an empty list exactly when every endpoint
\* has failed, or the answer holds no acteur, or reading one of its acteurs
\* raises; otherwise it returns one deputy per acteur of the answer.
C30_EmptyWhenNoEndpointOrNoDeputyRead ==
    /\ EndpointsInOrder
    /\ fetched["deputes"] >= 0 =>
           IF DeputesAnswered
                  /\ DeputesRequests[Len(DeputesRequests)].data # <<>>
                  /\ \A k \in 1..Len(DeputesRequests[Len(DeputesRequests)].data) :
                         ~DeputyRaises(DeputesRequests[Len(DeputesRequests)].data[k])
           THEN fetched["deputes"] = Len(DeputesRequests[Len(DeputesRequests)].data)
           ELSE fetched["deputes"] = 0

\* the first two endpoints failed and the third answered with a deputy; the
\* senators' file was requested next
C30_Witness ==
    /\ Len(DeputesRequests) = 3
    /\ DeputesRequests[1].status = "error" /\ DeputesRequests[2].status = "error"
    /\ DeputesRequests[3].status = "ok" /\ DeputesRequests[3].url = "opendata/17/acteurs"
    /\ fetched["deputes"] = 1
    /\ Len(requests) = 4

====
